---- MODULE Spec2Model ----
(***************************************************************************)
(* Cucina: the cooking-session state machine of App.tsx together with the  *)
(* unit-conversion and inventory-deduction engine of lib/conversions.ts.   *)
(*                                                                         *)
(* JavaScript numbers are modelled as exact rationals <<n, d>> (d > 0,     *)
(* lowest terms); null is the empty tuple.  Ids are strings.               *)
(***************************************************************************)
EXTENDS Integers, Sequences, FiniteSets, TLC

VARIABLES users, recipes, inventory, cookingSessions, currentUserId,
          measurements, selectedRecipeId, editingRecipeId, currentView,
          nextId, lastOp, call

vars == <<users, recipes, inventory, cookingSessions, currentUserId,
          measurements, selectedRecipeId, editingRecipeId, currentView,
          nextId, lastOp, call>>

appVars == <<users, recipes, inventory, cookingSessions, currentUserId,
             measurements, selectedRecipeId, editingRecipeId, currentView,
             nextId, lastOp>>

----------------------------------------------------------------------------
(* Numbers *)

Null == <<>>

Abs(n) == IF n < 0 THEN -n ELSE n

RECURSIVE GCD(_, _)
GCD(a, b) == IF b = 0 THEN a ELSE GCD(b, a % b)

R(n, d) ==
  LET s == IF d < 0 THEN -1 ELSE 1
      g == GCD(Abs(n), Abs(d))
  IN  IF n = 0 THEN <<0, 1>> ELSE <<(s * n) \div g, (s * d) \div g>>

Zero == <<0, 1>>
LCM(a, b) == (a \div GCD(a, b)) * b
RAdd(a, b) ==
  LET d == LCM(a[2], b[2])
  IN  R(a[1] * (d \div a[2]) + b[1] * (d \div b[2]), d)
RSub(a, b) ==
  LET d == LCM(a[2], b[2])
  IN  R(a[1] * (d \div a[2]) - b[1] * (d \div b[2]), d)
RMul(a, b) == R(a[1] * b[1], a[2] * b[2])
RDiv(a, b) == R(a[1] * b[2], a[2] * b[1])
RLt(a, b) == RSub(a, b)[1] < 0
RLe(a, b) == RSub(a, b)[1] <= 0
RMin(a, b) == IF RLt(b, a) THEN b ELSE a

\* the removal threshold 0.001 and the removal mark -1 of deductFromInventory
Epsilon == <<1, 1000>>
RemovalMark == <<-1, 1>>

----------------------------------------------------------------------------
(* lib/conversions.ts *)

Range(seq) == {seq[k] : k \in 1..Len(seq)}

\* Array.prototype.find over the elements satisfying the test (hits, in array
\* order): the first of them, or Null
Find(hits) == IF Len(hits) = 0 THEN Null ELSE hits[1]

\* a wrong conversion: falls back on the inverse of the edge to -> from
convertMeasurement_reverse(fromMeasurementId, toMeasurementId, quantity, meas) ==
  IF fromMeasurementId = toMeasurementId THEN quantity
  ELSE LET edges(a, b) ==
             {c \in UNION {Range(m.conversions) : m \in {x \in Range(meas) : x.id = a}} :
                c.toMeasurementId = b}
       IN  IF edges(fromMeasurementId, toMeasurementId) # {}
           THEN RMul(quantity,
                     (CHOOSE c \in edges(fromMeasurementId, toMeasurementId) : TRUE).factor)
           ELSE IF edges(toMeasurementId, fromMeasurementId) # {}
           THEN RDiv(quantity,
                     (CHOOSE c \in edges(toMeasurementId, fromMeasurementId) : TRUE).factor)
           ELSE Null

\* a wrong conversion: looks the unit up before the same-unit test
convertMeasurement_lookupFirst(fromMeasurementId, toMeasurementId, quantity, meas) ==
  IF \A m \in Range(meas) : m.id # fromMeasurementId THEN Null
  ELSE IF fromMeasurementId = toMeasurementId THEN quantity
  ELSE LET fromMeasurement == Find(SelectSeq(meas, LAMBDA m : m.id = fromMeasurementId))
           directConversion ==
             Find(SelectSeq(fromMeasurement.conversions,
                            LAMBDA c : c.toMeasurementId = toMeasurementId))
       IN  IF directConversion # Null
           THEN RMul(quantity, directConversion.factor)
           ELSE Null

convertMeasurement(fromMeasurementId, toMeasurementId, quantity, meas) ==
  IF fromMeasurementId = toMeasurementId THEN quantity
  ELSE LET fromMeasurement == Find(SelectSeq(meas, LAMBDA m : m.id = fromMeasurementId))
       IN  IF fromMeasurement = Null THEN Null
           ELSE LET directConversion ==
                      Find(SelectSeq(fromMeasurement.conversions,
                           LAMBDA c : c.toMeasurementId = toMeasurementId))
                IN  IF directConversion # Null
                    THEN RMul(quantity, directConversion.factor)
                    ELSE Null

\* a wrong sum: a lot without a conversion path is counted at face value
SumConverted_faceValue(inventoryItems, k, targetMeasurementId, meas) ==
  LET converted(i) == convertMeasurement(inventoryItems[i].measurementId,
                                         targetMeasurementId,
                                         inventoryItems[i].quantity, meas)
      total[i \in 0..k] ==
        IF i = 0 THEN Zero
        ELSE IF converted(i) # Null THEN RAdd(total[i - 1], converted(i))
        ELSE RAdd(total[i - 1], inventoryItems[i].quantity)
  IN  total[k]

\* the for loop of getTotalInventoryInUnit over the first k items
RECURSIVE SumConverted(_, _, _, _)
SumConverted(inventoryItems, k, targetMeasurementId, meas) ==
  IF k = 0 THEN Zero
  ELSE LET total == SumConverted(inventoryItems, k - 1, targetMeasurementId, meas)
           item == inventoryItems[k]
           converted == convertMeasurement(item.measurementId, targetMeasurementId,
                                           item.quantity, meas)
       IN  IF converted # Null THEN RAdd(total, converted) ELSE total

getTotalInventoryInUnit(ingredientId, targetMeasurementId, inv, meas) ==
  LET inventoryItems == SelectSeq(inv, LAMBDA item : item.ingredientId = ingredientId)
  IN  SumConverted(inventoryItems, Len(inventoryItems), targetMeasurementId, meas)

\* a wrong comparison: demands more than the requirement
MeetsRequirement_strict(totalAvailable, requiredQuantity) ==
  RLt(requiredQuantity, totalAvailable)

\* totalAvailable >= requiredQuantity
MeetsRequirement(totalAvailable, requiredQuantity) ==
  RLe(requiredQuantity, totalAvailable)

hasEnoughInventory(ingredientId, requiredMeasurementId, requiredQuantity, inv, meas) ==
  LET totalAvailable == getTotalInventoryInUnit(ingredientId, requiredMeasurementId,
                                                inv, meas)
  IN  [hasEnough |-> MeetsRequirement(totalAvailable, requiredQuantity),
       available |-> totalAvailable]

\* a wrong filter: forgets the owner of the lot
RelevantItems_anyUser(inv, ingredientId, userId) ==
  SelectSeq([i \in 1..Len(inv) |-> i],
            LAMBDA i : inv[i].ingredientId = ingredientId)

\* indices of the lots of this user and ingredient, in inventory order
RelevantItems(inv, ingredientId, userId) ==
  SelectSeq([i \in 1..Len(inv) |-> i],
            LAMBDA i : inv[i].userId = userId /\ inv[i].ingredientId = ingredientId)

\* a wrong comparator: no preference for the required unit
ComparePreference_none(a, b, requiredMeasurementId) == 0

\* the comparator handed to sort
ComparePreference(a, b, requiredMeasurementId) ==
  IF a.measurementId = requiredMeasurementId THEN -1
  ELSE IF b.measurementId = requiredMeasurementId THEN 1
  ELSE 0

\* stable insertion of index x into the sorted prefix
RECURSIVE InsertPos(_, _, _, _, _)
InsertPos(sorted, j, x, inv, req) ==
  IF j > 0 /\ ComparePreference(inv[sorted[j]], inv[x], req) > 0
  THEN InsertPos(sorted, j - 1, x, inv, req)
  ELSE j

RECURSIVE SortItems(_, _, _, _)
SortItems(items, k, inv, req) ==
  IF k = 0 THEN <<>>
  ELSE LET sorted == SortItems(items, k - 1, inv, req)
           j == InsertPos(sorted, Len(sorted), items[k], inv, req)
       IN  SubSeq(sorted, 1, j) \o <<items[k]>> \o SubSeq(sorted, j + 1, Len(sorted))

\* a wrong threshold test: every lot stays, an emptied one at quantity zero
KeepsLot_always(newQuantity) == TRUE

\* a wrong threshold test: keeps a lot reduced to exactly 0.001
KeepsLot_atLeast(newQuantity) == RLe(Epsilon, newQuantity)

\* newQuantity > 0.001: the lot stays, otherwise it is marked for removal
KeepsLot(newQuantity) == RLt(Epsilon, newQuantity)

\* a wrong iteration: without an edge back to the required unit it works the
\* deducted amount out from the forward conversion and reduces the remainder
DeductStep_inferBack(st, index, item, requiredMeasurementId, meas) ==
  LET amountInItemUnit ==
        convertMeasurement(requiredMeasurementId, item.measurementId,
                           st.remainingToDeduct, meas)
  IN  IF amountInItemUnit = Null THEN st
      ELSE
        LET toDeduct == RMin(item.quantity, amountInItemUnit)
            newQuantity == RSub(item.quantity, toDeduct)
            newItem == IF KeepsLot(newQuantity)
                       THEN [item EXCEPT !.quantity = newQuantity]
                       ELSE [item EXCEPT !.quantity = RemovalMark]
        IN  [updatedInventory |-> [st.updatedInventory EXCEPT ![index] = newItem],
             deducted |-> Append(st.deducted,
                                 [measurementId |-> item.measurementId,
                                  quantity |-> toDeduct]),
             remainingToDeduct |->
               RSub(st.remainingToDeduct,
                    RMul(st.remainingToDeduct, RDiv(toDeduct, amountInItemUnit))),
             touched |-> Append(st.touched, index)]

\* a wrong ledger: records the amount asked of the lot, not the amount taken
DeductStep_ledgerAsked(st, index, item, requiredMeasurementId, meas) ==
  LET amountInItemUnit ==
        convertMeasurement(requiredMeasurementId, item.measurementId,
                           st.remainingToDeduct, meas)
  IN  IF amountInItemUnit = Null THEN st
      ELSE
        LET toDeduct == RMin(item.quantity, amountInItemUnit)
            newQuantity == RSub(item.quantity, toDeduct)
            newItem == IF KeepsLot(newQuantity)
                       THEN [item EXCEPT !.quantity = newQuantity]
                       ELSE [item EXCEPT !.quantity = RemovalMark]
            deductedInRequiredUnit ==
              convertMeasurement(item.measurementId, requiredMeasurementId,
                                 toDeduct, meas)
        IN  [updatedInventory |-> [st.updatedInventory EXCEPT ![index] = newItem],
             deducted |-> Append(st.deducted,
                                 [measurementId |-> item.measurementId,
                                  quantity |-> amountInItemUnit]),
             remainingToDeduct |->
               IF deductedInRequiredUnit # Null
               THEN RSub(st.remainingToDeduct, deductedInRequiredUnit)
               ELSE st.remainingToDeduct,
             touched |-> Append(st.touched, index)]

\* one iteration of the for loop over sortedItems; st carries updatedInventory,
\* deducted and remainingToDeduct, plus the visiting record `touched`
DeductStep(st, index, item, requiredMeasurementId, meas) ==
  LET amountInItemUnit ==
        convertMeasurement(requiredMeasurementId, item.measurementId,
                           st.remainingToDeduct, meas)
  IN  IF amountInItemUnit = Null THEN st
      ELSE
        LET toDeduct == RMin(item.quantity, amountInItemUnit)
            newQuantity == RSub(item.quantity, toDeduct)
            newItem == IF KeepsLot(newQuantity)
                       THEN [item EXCEPT !.quantity = newQuantity]
                       ELSE [item EXCEPT !.quantity = RemovalMark]
            deductedInRequiredUnit ==
              convertMeasurement(item.measurementId, requiredMeasurementId,
                                 toDeduct, meas)
        IN  [updatedInventory |-> [st.updatedInventory EXCEPT ![index] = newItem],
             deducted |-> Append(st.deducted,
                                 [measurementId |-> item.measurementId,
                                  quantity |-> toDeduct]),
             remainingToDeduct |->
               IF deductedInRequiredUnit # Null
               THEN RSub(st.remainingToDeduct, deductedInRequiredUnit)
               ELSE st.remainingToDeduct,
             touched |-> Append(st.touched, index)]

RECURSIVE DeductLoop(_, _, _, _, _, _)
DeductLoop(sortedItems, k, st, inv, requiredMeasurementId, meas) ==
  IF k > Len(sortedItems) THEN st
  ELSE IF RLe(st.remainingToDeduct, Zero) THEN st
  ELSE DeductLoop(sortedItems, k + 1,
                  DeductStep(st, sortedItems[k], inv[sortedItems[k]],
                             requiredMeasurementId, meas),
                  inv, requiredMeasurementId, meas)

\* a wrong clean-up: the marked lots stay in the list
RemoveMarked_keep(inv) == inv

\* drop the lots marked for removal
RemoveMarked(inv) == SelectSeq(inv, LAMBDA item : item.quantity # RemovalMark)

deductFromInventory(ingredientId, requiredMeasurementId, requiredQuantity, inv, meas, userId) ==
  LET relevantItems == RelevantItems(inv, ingredientId, userId)
      sortedItems == SortItems(relevantItems, Len(relevantItems), inv,
                               requiredMeasurementId)
      st == DeductLoop(sortedItems, 1,
                       [updatedInventory |-> inv, deducted |-> <<>>,
                        remainingToDeduct |-> requiredQuantity,
                        touched |-> <<>>],
                       inv, requiredMeasurementId, meas)
  IN  [updatedInventory |-> RemoveMarked(st.updatedInventory),
       deducted |-> st.deducted,
       remainingToDeduct |-> st.remainingToDeduct,
       touched |-> st.touched,
       sortedItems |-> sortedItems]

----------------------------------------------------------------------------
(* Seed data (lib/storage.ts), reduced to the units and ingredients used   *)
(* below.  Measurement ids are written by name.                            *)

Half == <<1, 2>>
One == <<1, 1>>
Two == <<2, 1>>
Sixteen == <<16, 1>>
Sixteenth == <<1, 16>>

\* cup, tablespoon, piece of defaultMeasurements with the edges between them
defaultMeasurements ==
  << [id |-> "cup",
      conversions |-> << [toMeasurementId |-> "tablespoon", factor |-> Sixteen] >>],
     [id |-> "tablespoon",
      conversions |-> << [toMeasurementId |-> "cup", factor |-> Sixteenth] >>],
     [id |-> "piece", conversions |-> <<>>] >>

\* the measurements after handleRemoveConversion("tablespoon", "cup")
asymmetricMeasurements ==
  << [id |-> "cup",
      conversions |-> << [toMeasurementId |-> "tablespoon", factor |-> Sixteen] >>],
     [id |-> "tablespoon", conversions |-> <<>>],
     [id |-> "piece", conversions |-> <<>>] >>

Three == <<3, 1>>
Third == <<1, 3>>
FortyEight == <<48, 1>>

\* measurements edited on the Measurements page (handleAddMeasurement,
\* handleAddConversion, handleRemoveConversion) down to a one-way ring:
\* cup -> teaspoon -> tablespoon -> cup
ringMeasurements ==
  << [id |-> "cup",
      conversions |-> << [toMeasurementId |-> "teaspoon", factor |-> FortyEight] >>],
     [id |-> "tablespoon",
      conversions |-> << [toMeasurementId |-> "cup", factor |-> Sixteenth] >>],
     [id |-> "teaspoon",
      conversions |-> << [toMeasurementId |-> "tablespoon", factor |-> Third] >>],
     [id |-> "piece", conversions |-> <<>>] >>

\* cup keeps its edges to tablespoon and teaspoon, the edges back to cup
\* were removed
oneWayMeasurements ==
  << [id |-> "cup",
      conversions |-> << [toMeasurementId |-> "tablespoon", factor |-> Sixteen],
                         [toMeasurementId |-> "teaspoon", factor |-> FortyEight] >>],
     [id |-> "tablespoon", conversions |-> <<>>],
     [id |-> "teaspoon", conversions |-> <<>>],
     [id |-> "piece", conversions |-> <<>>] >>

MeasurementIds == {"cup", "tablespoon", "piece"}
IngredientIds == {"flour", "salt"}
UserIds == {"demo", "u2"}

----------------------------------------------------------------------------
(* Bounds *)

MaxLots == 4

----------------------------------------------------------------------------
(* App.tsx: the aggregate `data` (users, recipes, inventory,               *)
(* cookingSessions, currentUserId, measurements) and the view state of the *)
(* App component.  Recipe name, description, viewCount and createdAt and   *)
(* the ingredient catalogue play no part in the handlers below and are     *)
(* left out.  Every handler runs to completion in one step.                *)

Four == <<4, 1>>

\* the two seed recipes, cut down to the ingredients and units of the model
defaultRecipes ==
  << [id |-> "1", userId |-> "demo", servings |-> Four,
      ingredients |-> << [ingredientId |-> "flour", quantity |-> Two,
                          measurementId |-> "cup"] >>,
      instructions |-> <<"cook">>, cookCount |-> 8],
     [id |-> "2", userId |-> "demo", servings |-> Two,
      ingredients |-> << [ingredientId |-> "flour", quantity |-> One,
                          measurementId |-> "cup"] >>,
      instructions |-> <<"cook">>, cookCount |-> 12] >>

\* getDefaultData
getDefaultData ==
  [users |-> << [id |-> "demo", username |-> "demo", password |-> "demo"] >>,
   recipes |-> defaultRecipes,
   inventory |-> <<>>,
   cookingSessions |-> <<>>,
   currentUserId |-> "null",
   measurements |-> defaultMeasurements]

\* generateId: a fresh id on every call
GeneratedIds == <<"g1", "g2", "g3", "g4", "g5", "g6", "g7", "g8">>
generateId == GeneratedIds[nextId]

MaxIds == 2
MaxStock == 2

Usernames == {"demo", "ann"}
Passwords == {"demo", "pw"}

\* what the recipe form can submit: positive servings, at least one complete
\* ingredient line with quantity > 0, at least one instruction
RecipeFormInputs ==
  { [servings |-> Two,
     ingredients |-> << [ingredientId |-> "flour", quantity |-> One,
                         measurementId |-> "cup"] >>,
     instructions |-> <<"cook">>] }

\* a value typed into the serving-size field of cook mode
ServingSizeInputs == {Two}

\* what the inventory dialogs can submit
InventoryQuantityInputs == {One, <<1001, 1000>>}
InventoryIngredientInputs == {"flour"}
InventoryMeasurementInputs == {"cup", "tablespoon"}

NoCall == [fn |-> "none"]

\* useState(loadData()) on an empty store, and the initial view state
AppInit ==
  /\ users = getDefaultData.users
  /\ recipes = getDefaultData.recipes
  /\ inventory = getDefaultData.inventory
  /\ cookingSessions = getDefaultData.cookingSessions
  /\ currentUserId = getDefaultData.currentUserId
  /\ measurements = getDefaultData.measurements
  /\ selectedRecipeId = "null"
  /\ editingRecipeId = "null"
  /\ currentView = "dashboard"
  /\ nextId = 1
  /\ lastOp = [op |-> "init"]

Init == AppInit /\ call = NoCall

\* the main layout, and with it every handler but login and signup, is
\* rendered only for a logged-in user
LoggedIn == Find(SelectSeq(users, LAMBDA u : u.id = currentUserId)) # Null

userRecipes == SelectSeq(recipes, LAMBDA r : r.userId = currentUserId)
userInventory == SelectSeq(inventory, LAMBDA i : i.userId = currentUserId)

dataVars == <<users, recipes, inventory, cookingSessions, currentUserId, measurements>>

handleLogin(username, password) ==
  /\ ~LoggedIn
  /\ LET user == Find(SelectSeq(users, LAMBDA u : u.username = username /\ u.password = password))
     IN  /\ currentUserId' = IF user # Null THEN user.id ELSE currentUserId
         /\ lastOp' = [op |-> "other"]
  /\ UNCHANGED <<users, recipes, inventory, cookingSessions, measurements,
                 selectedRecipeId, editingRecipeId, currentView, nextId, call>>

handleLogout ==
  /\ LoggedIn
  /\ currentUserId' = "null"
  /\ currentView' = "dashboard"
  /\ lastOp' = [op |-> "other"]
  /\ UNCHANGED <<users, recipes, inventory, cookingSessions, measurements,
                 selectedRecipeId, editingRecipeId, nextId, call>>

\* the sidebar buttons and the back/cancel buttons of the pages
setCurrentView(view) ==
  /\ LoggedIn
  /\ currentView # view
  /\ currentView' = view
  /\ lastOp' = [op |-> "other"]
  /\ UNCHANGED <<dataVars, selectedRecipeId, editingRecipeId, nextId, call>>

handleAddRecipe ==
  /\ LoggedIn
  /\ currentView \in {"dashboard", "recipes"}
  /\ editingRecipeId' = "null"
  /\ currentView' = "recipe-form"
  /\ lastOp' = [op |-> "other"]
  /\ UNCHANGED <<dataVars, selectedRecipeId, nextId, call>>

handleEditRecipe(recipeId) ==
  /\ LoggedIn
  /\ currentView = "recipes"
  /\ editingRecipeId' = recipeId
  /\ currentView' = "recipe-form"
  /\ lastOp' = [op |-> "other"]
  /\ UNCHANGED <<dataVars, selectedRecipeId, nextId, call>>

\* a wrong update: the edited recipe is rebuilt like a new one, cookCount 0
handleSaveRecipe_resetCount(recipeData) ==
  /\ LoggedIn
  /\ currentView = "recipe-form"
  /\ IF editingRecipeId # "null"
     THEN /\ recipes' = [i \in 1..Len(recipes) |->
                           IF recipes[i].id = editingRecipeId
                           THEN [recipes[i] EXCEPT
                                   !.servings = recipeData.servings,
                                   !.ingredients = recipeData.ingredients,
                                   !.instructions = recipeData.instructions,
                                   !.cookCount = 0]
                           ELSE recipes[i]]
          /\ UNCHANGED nextId
     ELSE /\ nextId <= MaxIds
          /\ recipes' = Append(recipes,
                               [id |-> generateId, userId |-> currentUserId,
                                servings |-> recipeData.servings,
                                ingredients |-> recipeData.ingredients,
                                instructions |-> recipeData.instructions,
                                cookCount |-> 0])
          /\ nextId' = nextId + 1
  /\ currentView' = "recipes"
  /\ lastOp' = [op |-> "other"]
  /\ UNCHANGED <<users, inventory, cookingSessions, currentUserId, measurements,
                 selectedRecipeId, editingRecipeId, call>>

handleSaveRecipe(recipeData) ==
  /\ LoggedIn
  /\ currentView = "recipe-form"
  /\ IF editingRecipeId # "null"
     THEN /\ recipes' = [i \in 1..Len(recipes) |->
                           IF recipes[i].id = editingRecipeId
                           THEN [recipes[i] EXCEPT
                                   !.servings = recipeData.servings,
                                   !.ingredients = recipeData.ingredients,
                                   !.instructions = recipeData.instructions]
                           ELSE recipes[i]]
          /\ UNCHANGED nextId
     ELSE /\ nextId <= MaxIds
          /\ recipes' = Append(recipes,
                               [id |-> generateId, userId |-> currentUserId,
                                servings |-> recipeData.servings,
                                ingredients |-> recipeData.ingredients,
                                instructions |-> recipeData.instructions,
                                cookCount |-> 0])
          /\ nextId' = nextId + 1
  /\ currentView' = "recipes"
  /\ lastOp' = [op |-> "other"]
  /\ UNCHANGED <<users, inventory, cookingSessions, currentUserId, measurements,
                 selectedRecipeId, editingRecipeId, call>>

\* no cascade: the sessions of the deleted recipe stay
handleDeleteRecipe_keepSessions(recipeId) ==
  /\ LoggedIn
  /\ currentView = "recipes"
  /\ recipes' = SelectSeq(recipes, LAMBDA r : r.id # recipeId)
  /\ lastOp' = [op |-> "delete", sessions |-> 0]
  /\ UNCHANGED <<users, inventory, cookingSessions, currentUserId, measurements,
                 selectedRecipeId, editingRecipeId, currentView, nextId, call>>

\* a wrong cascade: only the active sessions of the recipe go
handleDeleteRecipe_activeOnly(recipeId) ==
  /\ LoggedIn
  /\ currentView = "recipes"
  /\ recipes' = SelectSeq(recipes, LAMBDA r : r.id # recipeId)
  /\ cookingSessions' =
       SelectSeq(cookingSessions,
                 LAMBDA s : ~(s.recipeId = recipeId /\ s.status = "active"))
  /\ lastOp' = [op |-> "delete",
                sessions |-> Len(cookingSessions) - Len(cookingSessions')]
  /\ UNCHANGED <<users, inventory, currentUserId, measurements, selectedRecipeId,
                 editingRecipeId, currentView, nextId, call>>

handleDeleteRecipe(recipeId) ==
  /\ LoggedIn
  /\ currentView = "recipes"
  /\ recipes' = SelectSeq(recipes, LAMBDA r : r.id # recipeId)
  /\ cookingSessions' = SelectSeq(cookingSessions, LAMBDA s : s.recipeId # recipeId)
  /\ lastOp' = [op |-> "delete",
                sessions |-> Len(cookingSessions) - Len(cookingSessions')]
  /\ UNCHANGED <<users, inventory, currentUserId, measurements, selectedRecipeId,
                 editingRecipeId, currentView, nextId, call>>

\* a wrong lookup: never finds a session to resume
ActiveSession_none(sessions, recipeId, userId) == Null

\* a wrong lookup: forgets the status test
ActiveSession_anyStatus(sessions, recipeId, userId) ==
  Find(SelectSeq(sessions, LAMBDA s : s.recipeId = recipeId /\ s.userId = userId))

\* the active session of this recipe and user, or Null
ActiveSession(sessions, recipeId, userId) ==
  Find(SelectSeq(sessions, LAMBDA s : s.recipeId = recipeId /\ s.userId = userId
                             /\ s.status = "active"))

\* a wrong new session: starts at one serving whatever the recipe says
NewSession_oneServing(id, recipe, userId) ==
  [id |-> id, recipeId |-> recipe.id, userId |-> userId,
   ingredientsChecked |-> <<>>, stepsChecked |-> <<>>,
   servingSize |-> One, status |-> "active"]

\* the session object handleStartCooking creates
NewSession(id, recipe, userId) ==
  [id |-> id, recipeId |-> recipe.id, userId |-> userId,
   ingredientsChecked |-> <<>>, stepsChecked |-> <<>>,
   servingSize |-> recipe.servings, status |-> "active"]

handleStartCooking(recipeId) ==
  /\ LoggedIn
  /\ currentView \in {"dashboard", "recipes"}
  /\ LET recipe == Find(SelectSeq(recipes, LAMBDA r : r.id = recipeId))
         existingSession == ActiveSession(cookingSessions, recipeId, currentUserId)
     IN  IF recipe = Null
         THEN /\ lastOp' = [op |-> "other"]
              /\ UNCHANGED <<cookingSessions, nextId, selectedRecipeId, currentView>>
         ELSE /\ IF existingSession = Null
                 THEN /\ nextId <= MaxIds
                      /\ cookingSessions' =
                           Append(cookingSessions,
                                  NewSession(generateId, recipe, currentUserId))
                      /\ nextId' = nextId + 1
                 ELSE UNCHANGED <<cookingSessions, nextId>>
              /\ selectedRecipeId' = recipeId
              /\ currentView' = "cook-mode"
              /\ lastOp' = [op |-> "start", created |-> existingSession = Null]
  /\ UNCHANGED <<users, recipes, inventory, currentUserId, measurements,
                 editingRecipeId, call>>

\* replace the stored session that has the id of `session`
handleUpdateCookingSession(sessions, session) ==
  [i \in 1..Len(sessions) |->
     IF sessions[i].id = session.id THEN session ELSE sessions[i]]

\* toggleIngredient / toggleStep of cook mode
Toggle(checked, index) ==
  IF index \in Range(checked)
  THEN SelectSeq(checked, LAMBDA i : i # index)
  ELSE Append(checked, index)

\* Cook mode is mounted on the selected recipe with its active session; a
\* change of its serving size or of a checklist runs the effect that hands
\* {...session, servingSize, ingredientsChecked, stepsChecked} to
\* handleUpdateCookingSession.
CookModeMounted ==
  /\ LoggedIn
  /\ currentView = "cook-mode"
  /\ Find(SelectSeq(recipes, LAMBDA r : r.id = selectedRecipeId)) # Null

cookingSession == ActiveSession(cookingSessions, selectedRecipeId, currentUserId)
selectedRecipe == Find(SelectSeq(recipes, LAMBDA r : r.id = selectedRecipeId))

PersistSession(updated) ==
  /\ cookingSessions' = handleUpdateCookingSession(cookingSessions, updated)
  /\ lastOp' = [op |-> "other"]
  /\ UNCHANGED <<users, recipes, inventory, currentUserId, measurements,
                 selectedRecipeId, editingRecipeId, currentView, nextId, call>>

setServingSize(value) ==
  /\ CookModeMounted
  /\ cookingSession # Null
  /\ cookingSession.servingSize # value
  /\ PersistSession([cookingSession EXCEPT !.servingSize = value])

toggleIngredient(index) ==
  /\ CookModeMounted
  /\ cookingSession # Null
  /\ index \in 0..(Len(selectedRecipe.ingredients) - 1)
  /\ PersistSession([cookingSession EXCEPT
                       !.ingredientsChecked = Toggle(@, index)])

toggleStep(index) ==
  /\ CookModeMounted
  /\ cookingSession # Null
  /\ index \in 0..(Len(selectedRecipe.instructions) - 1)
  /\ PersistSession([cookingSession EXCEPT !.stepsChecked = Toggle(@, index)])

\* a wrong loop: every line is deducted from the inventory as it was before
\* the loop, and the last result is kept
DeductIngredients_fromOriginal(ingredients, k, updatedInventory, scalingFactor, meas, userId) ==
  IF Len(ingredients) = 0 THEN updatedInventory
  ELSE LET ing == ingredients[Len(ingredients)]
       IN  deductFromInventory(ing.ingredientId, ing.measurementId,
                               RMul(ing.quantity, scalingFactor),
                               updatedInventory, meas, userId).updatedInventory

\* the forEach over recipe.ingredients of handleCompleteCooking, from line k
RECURSIVE DeductIngredients(_, _, _, _, _, _)
DeductIngredients(ingredients, k, updatedInventory, scalingFactor, meas, userId) ==
  IF k > Len(ingredients) THEN updatedInventory
  ELSE LET ing == ingredients[k]
           requiredAmount == RMul(ing.quantity, scalingFactor)
           result == deductFromInventory(ing.ingredientId, ing.measurementId,
                                         requiredAmount, updatedInventory,
                                         meas, userId)
       IN  DeductIngredients(ingredients, k + 1, result.updatedInventory,
                             scalingFactor, meas, userId)

\* a wrong map: marks every session of the list
SetStatus_all(sessions, id, status) ==
  [i \in 1..Len(sessions) |-> [sessions[i] EXCEPT !.status = status]]

\* cookingSessions.map(s => s.id === session.id ? {...s, status} : s)
SetStatus(sessions, id, status) ==
  [i \in 1..Len(sessions) |->
     IF sessions[i].id = id THEN [sessions[i] EXCEPT !.status = status]
     ELSE sessions[i]]

\* a wrong map: forgets the increment
IncrementCookCount_skip(rs, recipeId) == rs

\* a wrong map: counts the cook on every recipe
IncrementCookCount_all(rs, recipeId) ==
  [i \in 1..Len(rs) |-> [rs[i] EXCEPT !.cookCount = @ + 1]]

\* recipes.map(r => r.id === selectedRecipeId ? {...r, cookCount + 1} : r)
IncrementCookCount(rs, recipeId) ==
  [i \in 1..Len(rs) |->
     IF rs[i].id = recipeId THEN [rs[i] EXCEPT !.cookCount = @ + 1] ELSE rs[i]]

handleCompleteCooking ==
  /\ LoggedIn
  /\ LET session == cookingSession
         recipe == selectedRecipe
     IN  /\ IF session # Null /\ recipe # Null /\ currentUserId # "null"
            THEN LET scalingFactor == RDiv(session.servingSize, recipe.servings)
                 IN  /\ inventory' = DeductIngredients(recipe.ingredients, 1, inventory,
                                                       scalingFactor, measurements,
                                                       currentUserId)
                     /\ cookingSessions' = SetStatus(cookingSessions, session.id,
                                                     "completed")
                     /\ recipes' = IncrementCookCount(recipes, selectedRecipeId)
            ELSE UNCHANGED <<inventory, cookingSessions, recipes>>
         /\ lastOp' = [op |-> "complete", found |-> session # Null,
                       emptied |-> Len(inventory') < Len(inventory)]
  /\ currentView' = "recipes"
  /\ UNCHANGED <<users, currentUserId, measurements, selectedRecipeId,
                 editingRecipeId, nextId, call>>

handleCancelCooking ==
  /\ LoggedIn
  /\ LET session == cookingSession
     IN  /\ IF session # Null
            THEN cookingSessions' = SetStatus(cookingSessions, session.id, "cancelled")
            ELSE UNCHANGED cookingSessions
         /\ lastOp' = [op |-> "cancel", found |-> session # Null]
  /\ currentView' = "recipes"
  /\ UNCHANGED <<users, recipes, inventory, currentUserId, measurements,
                 selectedRecipeId, editingRecipeId, nextId, call>>


SameLot(item, userId, ingredientId, measurementId) ==
  /\ item.userId = userId
  /\ item.ingredientId = ingredientId
  /\ item.measurementId = measurementId

\* Array.prototype.findIndex, 1-based; 0 when nothing matches
FindIndex(inv, userId, ingredientId, measurementId) ==
  LET hits == {i \in 1..Len(inv) : SameLot(inv[i], userId, ingredientId, measurementId)}
  IN  IF hits = {} THEN 0 ELSE CHOOSE i \in hits : \A j \in hits : i <= j

\* a wrong add: a new row every time
AddInventoryItem_append(inv, item, userId) ==
  Append(inv, [userId |-> userId, ingredientId |-> item.ingredientId,
               measurementId |-> item.measurementId, quantity |-> item.quantity])

AddInventoryItem(inv, item, userId) ==
  LET existingIndex ==
        FindIndex(inv, userId, item.ingredientId, item.measurementId)
  IN  IF existingIndex > 0
      THEN [inv EXCEPT ![existingIndex].quantity = RAdd(@, item.quantity)]
      ELSE Append(inv, [userId |-> userId, ingredientId |-> item.ingredientId,
                        measurementId |-> item.measurementId,
                        quantity |-> item.quantity])

WithinStock(inv) == \A i \in 1..Len(inv) : RLe(inv[i].quantity, <<MaxStock, 1>>)

handleAddInventoryItem(item) ==
  /\ LoggedIn
  /\ currentView = "inventory"
  /\ inventory' = AddInventoryItem(inventory, item, currentUserId)
  /\ WithinStock(inventory')
  /\ lastOp' = [op |-> "add", merged |-> Len(inventory') = Len(inventory)]
  /\ UNCHANGED <<users, recipes, cookingSessions, currentUserId, measurements,
                 selectedRecipeId, editingRecipeId, currentView, nextId, call>>

EditInventoryItem(inv, userId, ingredientId, oldMeasurementId, newMeasurementId, quantity) ==
  IF oldMeasurementId # newMeasurementId
  THEN LET withoutOld ==
             SelectSeq(inv, LAMBDA i : ~SameLot(i, userId, ingredientId,
                                                oldMeasurementId))
           existingIndex ==
             FindIndex(withoutOld, userId, ingredientId, newMeasurementId)
       IN  IF existingIndex > 0
           THEN [withoutOld EXCEPT ![existingIndex].quantity = RAdd(@, quantity)]
           ELSE Append(withoutOld,
                       [userId |-> userId, ingredientId |-> ingredientId,
                        measurementId |-> newMeasurementId, quantity |-> quantity])
  ELSE [i \in 1..Len(inv) |->
          IF SameLot(inv[i], userId, ingredientId, oldMeasurementId)
          THEN [inv[i] EXCEPT !.quantity = quantity]
          ELSE inv[i]]

\* the inline editor edits a row of the current user's inventory
handleEditInventoryItem(ingredientId, oldMeasurementId, newMeasurementId, quantity) ==
  /\ LoggedIn
  /\ currentView = "inventory"
  /\ \E i \in 1..Len(inventory) :
       SameLot(inventory[i], currentUserId, ingredientId, oldMeasurementId)
  /\ inventory' = EditInventoryItem(inventory, currentUserId, ingredientId,
                                    oldMeasurementId, newMeasurementId, quantity)
  /\ WithinStock(inventory')
  /\ lastOp' = [op |-> "edit", merged |-> Len(inventory') < Len(inventory)]
  /\ UNCHANGED <<users, recipes, cookingSessions, currentUserId, measurements,
                 selectedRecipeId, editingRecipeId, currentView, nextId, call>>

handleDeleteInventoryItem(ingredientId, measurementId) ==
  /\ LoggedIn
  /\ currentView = "inventory"
  /\ \E i \in 1..Len(inventory) :
       SameLot(inventory[i], currentUserId, ingredientId, measurementId)
  /\ inventory' = SelectSeq(inventory,
                            LAMBDA i : ~SameLot(i, currentUserId, ingredientId,
                                                measurementId))
  /\ lastOp' = [op |-> "other"]
  /\ UNCHANGED <<users, recipes, cookingSessions, currentUserId, measurements,
                 selectedRecipeId, editingRecipeId, currentView, nextId, call>>

Views == {"recipes"}

Next ==
  \/ \E username \in Usernames, password \in Passwords : handleLogin(username, password)
  \/ handleLogout
  \/ \E view \in Views : setCurrentView(view)
  \/ handleAddRecipe
  \/ \E i \in 1..Len(userRecipes) : handleEditRecipe(userRecipes[i].id)
  \/ \E recipeData \in RecipeFormInputs : handleSaveRecipe(recipeData)
  \/ \E i \in 1..Len(userRecipes) : handleDeleteRecipe(userRecipes[i].id)
  \/ \E i \in 1..Len(userRecipes) : handleStartCooking(userRecipes[i].id)
  \/ \E value \in ServingSizeInputs : setServingSize(value)
  \/ \E index \in 0..1 : toggleIngredient(index)
  \/ \E index \in 0..1 : toggleStep(index)
  \/ handleCompleteCooking
  \/ handleCancelCooking

Spec == Init /\ [][Next]_vars

----------------------------------------------------------------------------
(* Cooking against a stocked kitchen.  loadData returns whatever an        *)
(* earlier run saved: here the demo user is still logged in, a second user *)
(* has signed up, the catalogue holds a third recipe entered through the   *)
(* recipe form, and the inventory holds lots added through the inventory   *)
(* page.  The view state starts afresh.                                    *)

storedUsers ==
  << [id |-> "demo", username |-> "demo", password |-> "demo"],
     [id |-> "u2", username |-> "ann", password |-> "pw"] >>

storedRecipes ==
  defaultRecipes \o
  << [id |-> "r3", userId |-> "demo", servings |-> One,
      ingredients |-> << [ingredientId |-> "flour", quantity |-> One,
                          measurementId |-> "cup"],
                         [ingredientId |-> "flour", quantity |-> One,
                          measurementId |-> "cup"] >>,
      instructions |-> <<"mix">>, cookCount |-> 0] >>

Lot(userId, ingredientId, measurementId, quantity) ==
  [userId |-> userId, ingredientId |-> ingredientId,
   measurementId |-> measurementId, quantity |-> quantity]

StoredInventories ==
  { << Lot("demo", "flour", "cup", One) >>,
    << Lot("demo", "flour", "tablespoon", <<32, 1>>),
       Lot("u2", "flour", "cup", Two),
       Lot("demo", "flour", "cup", One) >>,
    << Lot("demo", "salt", "cup", One),
       Lot("demo", "flour", "cup", <<3, 1>>) >> }

\* values typed into the serving-size field: any non-zero number is taken
CookServingSizeInputs == {Two, <<-1, 1>>}

CookInit ==
  /\ users = storedUsers
  /\ recipes = storedRecipes
  /\ inventory \in StoredInventories
  /\ cookingSessions = <<>>
  /\ currentUserId = "demo"
  /\ measurements = defaultMeasurements
  /\ selectedRecipeId = "null"
  /\ editingRecipeId = "null"
  /\ currentView = "dashboard"
  /\ nextId = 1
  /\ lastOp = [op |-> "init"]
  /\ call = NoCall

CookNext ==
  \/ \E view \in Views : setCurrentView(view)
  \/ \E i \in 1..Len(userRecipes) : handleStartCooking(userRecipes[i].id)
  \/ \E value \in CookServingSizeInputs : setServingSize(value)
  \/ handleCompleteCooking
  \/ handleCancelCooking

CookSpec == CookInit /\ [][CookNext]_vars

----------------------------------------------------------------------------
(* The inventory page and cooking.  The stored state has the demo user     *)
(* logged in and may hold a lot of the second user.                        *)

\* a finished session of the second user, as loadData may find it in storage
storedSession ==
  [NewSession("s0", defaultRecipes[1], "u2") EXCEPT !.status = "completed"]

InventoryInit ==
  /\ users = storedUsers
  /\ recipes = defaultRecipes
  /\ inventory \in {<<>>, << Lot("u2", "flour", "cup", One) >>}
  /\ cookingSessions \in {<<>>, << storedSession >>}
  /\ currentUserId = "demo"
  /\ measurements = defaultMeasurements
  /\ selectedRecipeId = "null"
  /\ editingRecipeId = "null"
  /\ currentView = "dashboard"
  /\ nextId = 1
  /\ lastOp = [op |-> "init"]
  /\ call = NoCall

InventoryViews == {"inventory", "recipes"}

InventoryNext ==
  \/ \E view \in InventoryViews : setCurrentView(view)
  \/ \E ingredientId \in InventoryIngredientInputs,
        measurementId \in InventoryMeasurementInputs,
        quantity \in InventoryQuantityInputs :
       handleAddInventoryItem([ingredientId |-> ingredientId,
                               measurementId |-> measurementId,
                               quantity |-> quantity])
  \/ \E i \in 1..Len(userInventory),
        newMeasurementId \in InventoryMeasurementInputs,
        quantity \in InventoryQuantityInputs :
       handleEditInventoryItem(userInventory[i].ingredientId,
                               userInventory[i].measurementId,
                               newMeasurementId, quantity)
  \/ \E i \in 1..Len(userInventory) :
       handleDeleteInventoryItem(userInventory[i].ingredientId,
                                 userInventory[i].measurementId)
  \/ \E i \in 1..Len(userRecipes) : handleStartCooking(userRecipes[i].id)
  \/ handleCompleteCooking
  \/ \E i \in 1..Len(userRecipes) : handleDeleteRecipe(userRecipes[i].id)

InventorySpec == InventoryInit /\ [][InventoryNext]_vars

----------------------------------------------------------------------------
(* Specification of deductFromInventory as a function: Init draws the      *)
(* arguments, ApplyDeduct stores the result.                               *)

\* quantities a lot can hold: validated positive on entry, above Epsilon
\* after a deduction
LotQuantities == {<<1, 500>>, <<3, 2000>>, One, Two}

\* requiredAmount = ing.quantity * scalingFactor; servingSize is any non-zero
\* number (CookMode takes parseFloat(value) || recipe.servings), so the
\* product is non-zero and may be negative
RequiredQuantities == {<<1, 1000>>, One, <<3, 1>>, <<-1, 1>>}

DeductLots ==
  [userId : {"demo"}, ingredientId : {"flour"},
   measurementId : MeasurementIds, quantity : LotQuantities]
  \cup
  {[userId |-> "u2", ingredientId |-> "flour", measurementId |-> "cup",
    quantity |-> One],
   [userId |-> "demo", ingredientId |-> "salt", measurementId |-> "cup",
    quantity |-> One]}

LotKey(item) == <<item.userId, item.ingredientId, item.measurementId>>

\* inventories hold at most one lot per (userId, ingredientId, measurementId)
UniqueKeys(inv) ==
  \A i, j \in 1..Len(inv) : LotKey(inv[i]) = LotKey(inv[j]) => i = j

DeductInventories ==
  {inv \in UNION {[1..n -> DeductLots] : n \in 0..MaxLots} : UniqueKeys(inv)}

DeductInit ==
  /\ AppInit
  /\ call \in [fn : {"deductFromInventory"},
               ingredientId : {"flour"},
               requiredMeasurementId : {"cup", "tablespoon"},
               requiredQuantity : RequiredQuantities,
               inventory : DeductInventories,
               measurements : {defaultMeasurements, asymmetricMeasurements},
               userId : {"demo"},
               done : {FALSE},
               result : {Null}]

ApplyDeduct ==
  /\ call.fn = "deductFromInventory"
  /\ ~call.done
  /\ call' = [call EXCEPT
                !.done = TRUE,
                !.result = deductFromInventory(call.ingredientId,
                                               call.requiredMeasurementId,
                                               call.requiredQuantity,
                                               call.inventory,
                                               call.measurements,
                                               call.userId)]
  /\ UNCHANGED appVars

DeductNext == ApplyDeduct

DeductSpec == DeductInit /\ [][DeductNext]_vars

DeductDone == call.fn = "deductFromInventory" /\ call.done

\* deductFromInventory over measurement lists edited on the Measurements
\* page, with lots held in three units
OneWayLots ==
  [userId : {"demo"}, ingredientId : {"flour"},
   measurementId : {"cup", "tablespoon", "teaspoon"},
   quantity : {One, Sixteen, FortyEight}]

OneWayInventories ==
  {inv \in UNION {[1..n -> OneWayLots] : n \in 0..MaxLots} : UniqueKeys(inv)}

OneWayInit ==
  /\ AppInit
  /\ call \in [fn : {"deductFromInventory"},
               ingredientId : {"flour"},
               requiredMeasurementId : {"cup"},
               requiredQuantity : {Half, One, Three},
               inventory : OneWayInventories,
               measurements : {defaultMeasurements, asymmetricMeasurements,
                               oneWayMeasurements},
               userId : {"demo"},
               done : {FALSE},
               result : {Null}]

OneWaySpec == OneWayInit /\ [][DeductNext]_vars

----------------------------------------------------------------------------
(* Specification of the read-only functions of lib/conversions.ts: Init    *)
(* draws the arguments of one call, the Apply action stores its result.    *)

\* unit ids handed to the functions; "gone" names a measurement deleted by
\* handleDeleteMeasurement and so absent from every list
QueryUnitIds == {"cup", "tablespoon", "teaspoon", "gone"}
QueryQuantities == {Half, One, Three, <<-1, 1>>}
QueryMeasurements == {defaultMeasurements, asymmetricMeasurements, ringMeasurements}

ConvertCalls ==
  [fn : {"convertMeasurement"},
   fromMeasurementId : QueryUnitIds,
   toMeasurementId : QueryUnitIds,
   quantity : QueryQuantities,
   measurements : QueryMeasurements,
   done : {FALSE},
   result : {Null}]

ApplyConvert ==
  /\ call.fn = "convertMeasurement"
  /\ ~call.done
  /\ call' = [call EXCEPT
                !.done = TRUE,
                !.result = convertMeasurement(call.fromMeasurementId,
                                              call.toMeasurementId,
                                              call.quantity, call.measurements)]
  /\ UNCHANGED appVars

\* the inventory handed to the stock functions is the current user's
QueryLots ==
  [userId : {"demo"}, ingredientId : {"flour"},
   measurementId : {"cup", "tablespoon", "piece"}, quantity : {Half, Sixteen}]
  \cup {Lot("demo", "salt", "cup", One)}

QueryInventories ==
  {inv \in UNION {[1..n -> QueryLots] : n \in 0..MaxLots} : UniqueKeys(inv)}

TotalCalls ==
  [fn : {"getTotalInventoryInUnit"},
   ingredientId : {"flour"},
   targetMeasurementId : {"cup", "tablespoon"},
   inventory : QueryInventories,
   measurements : {defaultMeasurements, asymmetricMeasurements},
   done : {FALSE},
   result : {Null}]

ApplyTotal ==
  /\ call.fn = "getTotalInventoryInUnit"
  /\ ~call.done
  /\ call' = [call EXCEPT
                !.done = TRUE,
                !.result = getTotalInventoryInUnit(call.ingredientId,
                                                   call.targetMeasurementId,
                                                   call.inventory,
                                                   call.measurements)]
  /\ UNCHANGED appVars

EnoughCalls ==
  [fn : {"hasEnoughInventory"},
   ingredientId : {"flour"},
   requiredMeasurementId : {"cup", "tablespoon"},
   requiredQuantity : {Half, One, Sixteen},
   inventory : QueryInventories,
   measurements : {defaultMeasurements, asymmetricMeasurements},
   done : {FALSE},
   result : {Null}]

ApplyHasEnough ==
  /\ call.fn = "hasEnoughInventory"
  /\ ~call.done
  /\ call' = [call EXCEPT
                !.done = TRUE,
                !.result = hasEnoughInventory(call.ingredientId,
                                              call.requiredMeasurementId,
                                              call.requiredQuantity,
                                              call.inventory,
                                              call.measurements)]
  /\ UNCHANGED appVars

QueryInit == AppInit /\ call \in ConvertCalls \cup TotalCalls \cup EnoughCalls

QueryNext == ApplyConvert \/ ApplyTotal \/ ApplyHasEnough

QuerySpec == QueryInit /\ [][QueryNext]_vars

ConvertDone == call.fn = "convertMeasurement" /\ call.done
TotalDone == call.fn = "getTotalInventoryInUnit" /\ call.done
EnoughDone == call.fn = "hasEnoughInventory" /\ call.done

----------------------------------------------------------------------------
(* Properties of the inventory (InventorySpec) *)

\* C16: the inventory holds at most one lot per
\* (userId, ingredientId, measurementId).
C16_OneLotPerKey ==
  \A i, j \in 1..Len(inventory) :
    (/\ inventory[i].userId = inventory[j].userId
     /\ inventory[i].ingredientId = inventory[j].ingredientId
     /\ inventory[i].measurementId = inventory[j].measurementId) => i = j

\* an edit changed the unit of a lot into the unit of another lot of the
\* user, next to the lot of the second user under the same ingredient
C16_Witness ==
  /\ lastOp.op = "edit" /\ lastOp.merged
  /\ \E i, j \in 1..Len(inventory) :
       /\ inventory[i].userId = "demo" /\ inventory[j].userId = "u2"
       /\ inventory[i].ingredientId = inventory[j].ingredientId
       /\ inventory[i].quantity = Two

\* C17: after every step every lot has a quantity above zero, and a lot that
\* a completion changed holds more than 0.001: an emptied lot is not kept.
C17_NoEmptyRows ==
  [][/\ \A i \in 1..Len(inventory') : RLt(Zero, inventory'[i].quantity)
     /\ lastOp'.op = "complete" =>
          \A i \in 1..Len(inventory') :
            \/ inventory'[i] \in Range(inventory)
            \/ RLt(Epsilon, inventory'[i].quantity)]_vars

\* a completion emptied a lot, which is gone, and left other lots behind
C17_Witness ==
  /\ lastOp.op = "complete" /\ lastOp.found /\ lastOp.emptied
  /\ \E i \in 1..Len(inventory) : inventory[i].userId = "demo"

RecipeIds(rs) == {rs[i].id : i \in 1..Len(rs)}

----------------------------------------------------------------------------
(* Properties of the read-only functions (QuerySpec) *)

\* the edges a -> b stored in the conversion list of measurement a
EdgesOf(meas, a, b) ==
  {c \in UNION {Range(m.conversions) : m \in {x \in Range(meas) : x.id = a}} :
     c.toMeasurementId = b}

\* C11: for distinct units, convertMeasurement returns quantity * factor when
\* the from-measurement's own list holds an edge to the target, and null for
\* every other pair, whatever reverse edge or chain of edges exists.
C11_DirectEdgeOnly ==
  (ConvertDone /\ call.fromMeasurementId # call.toMeasurementId) =>
    LET direct == EdgesOf(call.measurements, call.fromMeasurementId,
                          call.toMeasurementId)
    IN  IF direct # {}
        THEN \E c \in direct : call.result = RMul(call.quantity, c.factor)
        ELSE call.result = Null

\* no path was reported although the reverse edge and a two-edge chain exist
C11_Witness ==
  /\ ConvertDone
  /\ call.fromMeasurementId # call.toMeasurementId
  /\ call.result = Null
  /\ EdgesOf(call.measurements, call.toMeasurementId, call.fromMeasurementId) # {}
  /\ \E x \in QueryUnitIds :
       /\ EdgesOf(call.measurements, call.fromMeasurementId, x) # {}
       /\ EdgesOf(call.measurements, x, call.toMeasurementId) # {}

\* C12: converting a unit to itself returns the quantity unchanged, also for
\* a unit id that no measurement of the list carries.
C12_SameUnitIdentity ==
  (ConvertDone /\ call.fromMeasurementId = call.toMeasurementId) =>
    call.result = call.quantity

\* a same-unit conversion of a unit missing from the list
C12_Witness ==
  /\ ConvertDone
  /\ call.fromMeasurementId = call.toMeasurementId
  /\ \A m \in Range(call.measurements) : m.id # call.fromMeasurementId
  /\ call.result = call.quantity
  /\ call.quantity # Zero

\* a lot counts towards the target unit when it is of the ingredient and its
\* unit is the target or has an edge of its own to the target
Counts(item, ingredientId, targetMeasurementId, meas) ==
  /\ item.ingredientId = ingredientId
  /\ \/ item.measurementId = targetMeasurementId
     \/ EdgesOf(meas, item.measurementId, targetMeasurementId) # {}

InTarget(item, targetMeasurementId, meas) ==
  IF item.measurementId = targetMeasurementId THEN item.quantity
  ELSE RMul(item.quantity,
            (CHOOSE c \in EdgesOf(meas, item.measurementId, targetMeasurementId) :
               TRUE).factor)

\* C13: getTotalInventoryInUnit returns the sum of the converted quantities
\* of the ingredient's lots whose unit is the target or has a direct edge to
\* it; every other lot adds nothing.
C13_TotalOfConvertibleLots ==
  TotalDone =>
    LET inv == call.inventory
        sum[k \in 0..Len(inv)] ==
          IF k = 0 THEN Zero
          ELSE IF Counts(inv[k], call.ingredientId, call.targetMeasurementId,
                         call.measurements)
               THEN RAdd(sum[k - 1],
                         InTarget(inv[k], call.targetMeasurementId, call.measurements))
               ELSE sum[k - 1]
    IN  call.result = sum[Len(inv)]

\* a total made of an exact-unit lot and a converted lot, next to a lot of
\* the ingredient that has no edge to the target and a lot of another
\* ingredient
C13_Witness ==
  /\ TotalDone
  /\ \E i, j, k, l \in 1..Len(call.inventory) :
       LET counts(x) == Counts(call.inventory[x], call.ingredientId,
                               call.targetMeasurementId, call.measurements)
       IN  /\ counts(i) /\ call.inventory[i].measurementId = call.targetMeasurementId
           /\ counts(j) /\ call.inventory[j].measurementId # call.targetMeasurementId
           /\ ~counts(k) /\ call.inventory[k].ingredientId = call.ingredientId
           /\ call.inventory[l].ingredientId # call.ingredientId
  /\ RLt(Zero, call.result)

\* C14: hasEnoughInventory reports available = getTotalInventoryInUnit of
\* the same arguments and hasEnough exactly when available >= required, with
\* no tolerance.
C14_ExactComparison ==
  EnoughDone =>
    /\ call.result.available =
         getTotalInventoryInUnit(call.ingredientId, call.requiredMeasurementId,
                                 call.inventory, call.measurements)
    /\ call.result.hasEnough <=> RLe(call.requiredQuantity, call.result.available)

\* stock that meets the requirement exactly, part of it converted
C14_Witness ==
  /\ EnoughDone
  /\ call.result.available = call.requiredQuantity
  /\ call.result.hasEnough
  /\ \E i \in 1..Len(call.inventory) :
       /\ call.inventory[i].ingredientId = call.ingredientId
       /\ call.inventory[i].measurementId # call.requiredMeasurementId
       /\ EdgesOf(call.measurements, call.inventory[i].measurementId,
                  call.requiredMeasurementId) # {}

----------------------------------------------------------------------------
(* Properties of the cooking-session state machine *)

\* positions of the active sessions of a recipe and user
ActiveFor(recipeId, userId) ==
  {i \in 1..Len(cookingSessions) :
     /\ cookingSessions[i].recipeId = recipeId
     /\ cookingSessions[i].userId = userId
     /\ cookingSessions[i].status = "active"}

FinishedFor(recipeId, userId, status) ==
  {i \in 1..Len(cookingSessions) :
     /\ cookingSessions[i].recipeId = recipeId
     /\ cookingSessions[i].userId = userId
     /\ cookingSessions[i].status = status}

RecipeWithId(recipeId) == CHOOSE r \in Range(recipes) : r.id = recipeId

\* C1: every (recipeId, userId) pair has at most one active session.
C1_OneActivePerPair ==
  \A i, j \in 1..Len(cookingSessions) :
    (/\ cookingSessions[i].recipeId = cookingSessions[j].recipeId
     /\ cookingSessions[i].userId = cookingSessions[j].userId
     /\ cookingSessions[i].status = "active"
     /\ cookingSessions[j].status = "active") => i = j

\* start-cooking was invoked on a pair that already had its active session,
\* next to an earlier, finished session of the same pair
C1_Witness ==
  /\ lastOp.op = "start" /\ ~lastOp.created
  /\ ActiveFor(selectedRecipeId, currentUserId) # {}
  /\ \E i \in 1..Len(cookingSessions) :
       /\ cookingSessions[i].recipeId = selectedRecipeId
       /\ cookingSessions[i].userId = currentUserId
       /\ cookingSessions[i].status # "active"

\* C2: a session whose status is completed or cancelled keeps that status in
\* every later step in which it is still stored.
C2_TerminalIsFinal ==
  [][\A i \in 1..Len(cookingSessions) : \A j \in 1..Len(cookingSessions') :
       (/\ cookingSessions[i].id = cookingSessions'[j].id
        /\ cookingSessions[i].status # "active")
         => cookingSessions'[j].status = cookingSessions[i].status]_vars

\* cancel was invoked on a pair whose session is already completed
C2_Witness ==
  /\ lastOp.op = "cancel"
  /\ FinishedFor(selectedRecipeId, currentUserId, "completed") # {}
  /\ FinishedFor(selectedRecipeId, currentUserId, "cancelled") = {}

\* C3: completing the active session of (selected recipe, current user) adds
\* exactly 1 to that recipe's cookCount and leaves every other cookCount as it
\* was; complete or cancel without an active session of that pair changes no
\* session, no recipe and no inventory lot.
C3_CompleteCountsOnce ==
  [][/\ (lastOp'.op = "complete" /\ ActiveFor(selectedRecipeId, currentUserId) # {})
          => /\ Len(recipes') = Len(recipes)
             /\ \A i \in 1..Len(recipes) :
                  /\ recipes'[i].id = recipes[i].id
                  /\ recipes'[i].cookCount =
                       IF recipes[i].id = selectedRecipeId
                       THEN recipes[i].cookCount + 1
                       ELSE recipes[i].cookCount
     /\ (lastOp'.op \in {"complete", "cancel"}
         /\ ActiveFor(selectedRecipeId, currentUserId) = {})
          => /\ cookingSessions' = cookingSessions
             /\ recipes' = recipes
             /\ inventory' = inventory]_vars

\* complete was invoked again on a session that is already completed
C3_Witness ==
  /\ lastOp.op = "complete" /\ ~lastOp.found
  /\ FinishedFor(selectedRecipeId, currentUserId, "completed") # {}
  /\ inventory # <<>>

\* C4: start-cooking on a pair with an active session changes no session;
\* without one it appends exactly one session: active, at the recipe's
\* servings, with both checklists empty.
C4_StartResumesOrCreates ==
  [][lastOp'.op = "start" =>
       IF ActiveFor(selectedRecipeId', currentUserId) # {}
       THEN cookingSessions' = cookingSessions
       ELSE /\ Len(cookingSessions') = Len(cookingSessions) + 1
            /\ SubSeq(cookingSessions', 1, Len(cookingSessions)) = cookingSessions
            /\ LET new == cookingSessions'[Len(cookingSessions')]
               IN  /\ new.recipeId = selectedRecipeId'
                   /\ new.userId = currentUserId
                   /\ new.status = "active"
                   /\ new.servingSize = RecipeWithId(selectedRecipeId').servings
                   /\ new.ingredientsChecked = <<>>
                   /\ new.stepsChecked = <<>>
                   /\ \A i \in 1..Len(cookingSessions) :
                        cookingSessions[i].id # new.id]_vars

\* a session with progress and a changed serving size was resumed
C4_Witness ==
  /\ lastOp.op = "start" /\ ~lastOp.created
  /\ \E i \in ActiveFor(selectedRecipeId, currentUserId) :
       /\ cookingSessions[i].ingredientsChecked # <<>>
       /\ cookingSessions[i].stepsChecked # <<>>
       /\ cookingSessions[i].servingSize # RecipeWithId(selectedRecipeId).servings

\* the inventory after deducting lines 1..n in order, each from the result of
\* the line before, at requiredQty = quantity * (servingSize / servings)
FoldInventory(session, recipe, inv, meas, userId) ==
  LET n == Len(recipe.ingredients)
      after[k \in 0..n] ==
        IF k = 0 THEN inv
        ELSE deductFromInventory(
               recipe.ingredients[k].ingredientId,
               recipe.ingredients[k].measurementId,
               RMul(recipe.ingredients[k].quantity,
                    RDiv(session.servingSize, recipe.servings)),
               after[k - 1], meas, userId).updatedInventory
  IN  after[n]

BecomesCompleted(i) ==
  /\ cookingSessions[i].status = "active"
  /\ cookingSessions'[i].status = "completed"

\* C5: completion is one state update: in any step in which a session
\* becomes completed, a cookCount changes or the inventory changes, exactly
\* one session becomes completed, its recipe's cookCount goes up by one and
\* the inventory is the deducted inventory, all in that same step.
C5_CompletionAtomic ==
  [][(\/ \E i \in 1..Len(cookingSessions) : BecomesCompleted(i)
      \/ \E i \in 1..Len(recipes) : recipes'[i].cookCount # recipes[i].cookCount
      \/ inventory' # inventory)
       => \E i \in 1..Len(cookingSessions) :
            LET session == cookingSessions[i]
                recipe == RecipeWithId(session.recipeId)
            IN  /\ BecomesCompleted(i)
                /\ \A j \in 1..Len(cookingSessions) : BecomesCompleted(j) => j = i
                /\ \A r \in 1..Len(recipes) :
                     recipes'[r].cookCount =
                       IF recipes[r].id = session.recipeId
                       THEN recipes[r].cookCount + 1
                       ELSE recipes[r].cookCount
                /\ inventory' = FoldInventory(session, recipe, inventory,
                                              measurements, session.userId)]_vars

\* a completion that took stock out of the inventory
C5_Witness ==
  /\ lastOp.op = "complete" /\ lastOp.found
  /\ inventory \notin StoredInventories
  /\ \E r \in 1..Len(recipes) : recipes[r].cookCount = storedRecipes[r].cookCount + 1

\* C6: on completion the inventory becomes the left fold of
\* deductFromInventory over the recipe's lines in recipe order.
C6_InventoryIsLeftFold ==
  [][(lastOp'.op = "complete" /\ ActiveFor(selectedRecipeId, currentUserId) # {})
       => \A i \in ActiveFor(selectedRecipeId, currentUserId) :
            inventory' = FoldInventory(cookingSessions[i],
                                       RecipeWithId(selectedRecipeId),
                                       inventory, measurements, currentUserId)]_vars

\* the two-line recipe was completed: its first line emptied the cup lot, so
\* its second line took 16 tablespoons from the tablespoon lot
C6_Witness ==
  /\ lastOp.op = "complete" /\ lastOp.found
  /\ selectedRecipeId = "r3"
  /\ inventory = << Lot("demo", "flour", "tablespoon", Sixteen),
                    Lot("u2", "flour", "cup", Two) >>

\* C7: cancelling an active session sets that session's status to cancelled
\* and changes nothing else: not the inventory, not a recipe, not another
\* session.
C7_CancelOnlySetsStatus ==
  [][(lastOp'.op = "cancel" /\ ActiveFor(selectedRecipeId, currentUserId) # {})
       => /\ inventory' = inventory
          /\ recipes' = recipes
          /\ Len(cookingSessions') = Len(cookingSessions)
          /\ \A i \in 1..Len(cookingSessions) :
               cookingSessions'[i] =
                 IF i \in ActiveFor(selectedRecipeId, currentUserId)
                 THEN [cookingSessions[i] EXCEPT !.status = "cancelled"]
                 ELSE cookingSessions[i]]_vars

\* a session was cancelled while another session is stored
C7_Witness ==
  /\ lastOp.op = "cancel" /\ lastOp.found
  /\ FinishedFor(selectedRecipeId, currentUserId, "cancelled") # {}
  /\ \E i \in 1..Len(cookingSessions) :
       cookingSessions[i].recipeId # selectedRecipeId

----------------------------------------------------------------------------
(* Properties of deductFromInventory (DeductSpec) *)

\* the lots of inv at the positions idx, in order
Indexes(inv) == [i \in 1..Len(inv) |-> i]

LotsAt(inv, idx) == [k \in 1..Len(idx) |-> inv[idx[k]]]

IsCandidate(item) ==
  item.userId = call.userId /\ item.ingredientId = call.ingredientId

\* positions of the candidate lots held in the required unit
ExactLots ==
  {i \in 1..Len(call.inventory) :
     /\ IsCandidate(call.inventory[i])
     /\ call.inventory[i].measurementId = call.requiredMeasurementId}

OtherUnitUnchanged ==
  \A i \in 1..Len(call.inventory) :
    call.inventory[i].measurementId # call.requiredMeasurementId
      => call.inventory[i] \in Range(call.result.updatedInventory)

SingleExactEntry(e) ==
  call.result.deducted =
    << [measurementId |-> call.requiredMeasurementId,
        quantity |-> call.requiredQuantity] >>

ExactLotVisitedFirst(e) ==
  /\ call.result.sortedItems[1] = e
  /\ call.result.touched # <<>> => call.result.touched[1] = e

TouchedLot(k) == call.inventory[call.result.touched[k]]
NewQuantityOf(k) == RSub(TouchedLot(k).quantity, call.result.deducted[k].quantity)
ReturnedFor(k) ==
  LotsAt(call.result.updatedInventory, SelectSeq(Indexes(call.result.updatedInventory),
         LAMBDA j : LotKey(call.result.updatedInventory[j]) = LotKey(TouchedLot(k))))

\* C9 as stated: a touched lot is deleted exactly when its new quantity is
\* below 0.001 and otherwise kept with the reduced quantity (so kept at 0.001).
C9_AsStated ==
  DeductDone =>
    \A k \in 1..Len(call.result.touched) :
      IF RLt(NewQuantityOf(k), Epsilon)
      THEN ReturnedFor(k) = <<>>
      ELSE ReturnedFor(k) = << [TouchedLot(k) EXCEPT !.quantity = NewQuantityOf(k)] >>

\* C9 amended: a touched lot is deleted exactly when its new quantity is at
\* most 0.001 (a lot reduced to exactly 0.001 is deleted) and otherwise kept
\* with the reduced quantity.
C9_RemovalThreshold ==
  DeductDone =>
    /\ Len(call.result.deducted) = Len(call.result.touched)
    /\ \A k \in 1..Len(call.result.touched) :
         IF RLe(NewQuantityOf(k), Epsilon)
         THEN ReturnedFor(k) = <<>>
         ELSE ReturnedFor(k) = << [TouchedLot(k) EXCEPT !.quantity = NewQuantityOf(k)] >>

\* one call that reduces a lot to exactly 0.001 and keeps another lot
C9_Witness ==
  /\ DeductDone
  /\ \E k \in 1..Len(call.result.touched) : NewQuantityOf(k) = Epsilon
  /\ call.result.updatedInventory # <<>>

TouchedSet == Range(call.result.touched)
TouchedKeys == {LotKey(call.inventory[i]) : i \in TouchedSet}

Convertible(item) ==
  convertMeasurement(call.requiredMeasurementId, item.measurementId, One,
                     call.measurements) # Null

\* C10: the lots not deducted from come back unchanged and in their original
\* order; lots of other users, of other ingredients and in units without an
\* edge from the required unit are never deducted from, and a convertible
\* candidate lot is passed over only once nothing remains to deduct.
C10_UntouchedPassThrough ==
  DeductDone =>
    /\ LotsAt(call.inventory, SelectSeq(Indexes(call.inventory), LAMBDA i : i \notin TouchedSet))
         = LotsAt(call.result.updatedInventory, SelectSeq(Indexes(call.result.updatedInventory),
                  LAMBDA j : LotKey(call.result.updatedInventory[j]) \notin TouchedKeys))
    /\ \A i \in 1..Len(call.inventory) :
         LET item == call.inventory[i]
         IN  /\ (~IsCandidate(item) \/ ~Convertible(item)) => i \notin TouchedSet
             /\ (IsCandidate(item) /\ Convertible(item) /\ i \notin TouchedSet)
                  => RLe(call.result.remainingToDeduct, Zero)

\* a call that deducts from one lot and passes over a lot of another user, a
\* lot in a unit without an edge and a convertible lot reached too late
C10_Witness ==
  /\ DeductDone
  /\ call.result.touched # <<>>
  /\ \E i, j, l \in 1..Len(call.inventory) \ TouchedSet :
       /\ ~IsCandidate(call.inventory[i])
       /\ IsCandidate(call.inventory[j]) /\ ~Convertible(call.inventory[j])
       /\ IsCandidate(call.inventory[l]) /\ Convertible(call.inventory[l])

\* the factor of the edge from the required unit to the unit of the lot
ForwardFactor(item) ==
  IF item.measurementId = call.requiredMeasurementId THEN One
  ELSE (CHOOSE c \in EdgesOf(call.measurements, call.requiredMeasurementId,
                             item.measurementId) : TRUE).factor

\* the user's convertible stock of the ingredient, in the required unit
ConvertibleStock ==
  LET inv == call.inventory
      stock[k \in 0..Len(inv)] ==
        IF k = 0 THEN Zero
        ELSE IF IsCandidate(inv[k]) /\ Convertible(inv[k])
             THEN RAdd(stock[k - 1], RDiv(inv[k].quantity, ForwardFactor(inv[k])))
             ELSE stock[k - 1]
  IN  stock[Len(inv)]

NoWayBack(item) ==
  /\ item.measurementId # call.requiredMeasurementId
  /\ EdgesOf(call.measurements, item.measurementId, call.requiredMeasurementId) = {}

\* the remaining amount after the first k visited lots: a visit reduces it by
\* the deducted quantity converted back, and not at all without a way back
RemainingAfter(k) ==
  LET rem[j \in 0..k] ==
        IF j = 0 THEN call.requiredQuantity
        ELSE IF NoWayBack(TouchedLot(j)) THEN rem[j - 1]
        ELSE RSub(rem[j - 1],
                  convertMeasurement(TouchedLot(j).measurementId,
                                     call.requiredMeasurementId,
                                     call.result.deducted[j].quantity,
                                     call.measurements))
  IN  rem[k]

\* C20: a visited lot whose unit has no edge back to the required unit loses
\* min(lot.quantity, remaining converted to its unit), the ledger records it,
\* and the remaining amount stays as it was, so the next lot is deducted
\* against the same remaining amount.
C20_OneWayLeavesRemaining ==
  DeductDone =>
    /\ \A k \in 1..Len(call.result.touched) :
         call.result.deducted[k] =
           [measurementId |-> TouchedLot(k).measurementId,
            quantity |-> RMin(TouchedLot(k).quantity,
                              RMul(RemainingAfter(k - 1), ForwardFactor(TouchedLot(k))))]
    /\ call.result.remainingToDeduct = RemainingAfter(Len(call.result.touched))
    /\ \A i \in 1..Len(call.inventory) :
         (IsCandidate(call.inventory[i]) /\ Convertible(call.inventory[i])
          /\ RLt(Zero, call.result.remainingToDeduct))
           => i \in TouchedSet

\* two lots without a way back emptied one after the other for one cup: the
\* second was deducted against the full requirement
C20_Witness ==
  /\ DeductDone
  /\ Len(call.result.touched) >= 2
  /\ \E k \in 1..(Len(call.result.touched) - 1) :
       /\ NoWayBack(TouchedLot(k))
       /\ NoWayBack(TouchedLot(k + 1))
       /\ RemainingAfter(k) = call.requiredQuantity
       /\ call.result.deducted[k + 1].quantity =
            RMul(call.requiredQuantity, ForwardFactor(TouchedLot(k + 1)))

----------------------------------------------------------------------------
(* Cook mode as the user drives it.  The Complete button of cook mode is   *)
(* the only caller of handleCompleteCooking; it is enabled by isComplete,  *)
(* handleComplete then compares the two checklist lengths with the         *)
(* recipe's, and confirmComplete calls onComplete.  The recipe can be      *)
(* edited through the recipe form while its session is active, and cook    *)
(* mode mounted again takes its checklists from the stored session.        *)

twoLineRecipe ==
  [id |-> "r2", userId |-> "demo", servings |-> Two,
   ingredients |-> << [ingredientId |-> "flour", quantity |-> One,
                       measurementId |-> "cup"],
                      [ingredientId |-> "salt", quantity |-> One,
                       measurementId |-> "teaspoon"] >>,
   instructions |-> <<"mix", "bake">>, cookCount |-> 0]

\* what the recipe form submits here: the same recipe with one line and one
\* step, or with two of each
CookModeFormInputs ==
  { [servings |-> Two,
     ingredients |-> SubSeq(twoLineRecipe.ingredients, 1, n),
     instructions |-> SubSeq(twoLineRecipe.instructions, 1, n)] : n \in 1..2 }

CookModeInit ==
  /\ users = storedUsers
  /\ recipes = << twoLineRecipe >>
  /\ inventory = <<>>
  /\ cookingSessions = <<>>
  /\ currentUserId = "demo"
  /\ measurements = defaultMeasurements
  /\ selectedRecipeId = "null"
  /\ editingRecipeId = "null"
  /\ currentView = "dashboard"
  /\ nextId = 1
  /\ lastOp = [op |-> "init"]
  /\ call = NoCall

\* totalProgress === 100: the checked entries are as many as the lines and
\* the steps of the recipe together
isComplete(ingredientsChecked, stepsChecked, recipe) ==
  Len(ingredientsChecked) + Len(stepsChecked)
    = Len(recipe.ingredients) + Len(recipe.instructions)

\* handleComplete opens the confirmation dialog unless a checklist is shorter
\* than the recipe's list
handleComplete(ingredientsChecked, stepsChecked, recipe) ==
  /\ ~(Len(ingredientsChecked) < Len(recipe.ingredients))
  /\ ~(Len(stepsChecked) < Len(recipe.instructions))

\* the Complete button, the dialog and its confirmation
confirmComplete ==
  /\ CookModeMounted
  /\ cookingSession # Null
  /\ isComplete(cookingSession.ingredientsChecked, cookingSession.stepsChecked,
                selectedRecipe)
  /\ handleComplete(cookingSession.ingredientsChecked,
                    cookingSession.stepsChecked, selectedRecipe)
  /\ handleCompleteCooking

CookModeNext ==
  \/ \E view \in Views : setCurrentView(view)
  \/ \E i \in 1..Len(userRecipes) : handleEditRecipe(userRecipes[i].id)
  \/ \E recipeData \in CookModeFormInputs : handleSaveRecipe(recipeData)
  \/ \E i \in 1..Len(userRecipes) : handleStartCooking(userRecipes[i].id)
  \/ \E index \in 0..1 : toggleIngredient(index)
  \/ \E index \in 0..1 : toggleStep(index)
  \/ confirmComplete

CookModeSpec == CookModeInit /\ [][CookModeNext]_vars

----------------------------------------------------------------------------
(* Properties of cook mode (CookModeSpec) *)

\* every line and every step of the recipe is in the session's checklists
AllChecked(session, recipe) ==
  /\ \A k \in 0..(Len(recipe.ingredients) - 1) :
       k \in Range(session.ingredientsChecked)
  /\ \A k \in 0..(Len(recipe.instructions) - 1) :
       k \in Range(session.stepsChecked)

\* C19: cook mode lets a session be completed only when every ingredient
\* index and every instruction index of the recipe as it stands is in the
\* session's ingredientsChecked and stepsChecked, also after the recipe was
\* edited while the session was active and the session was resumed.
C19_CompletedOnlyWhenAllChecked ==
  [][\A i \in 1..Len(cookingSessions) :
       (Len(cookingSessions') = Len(cookingSessions) /\ BecomesCompleted(i)) =>
         AllChecked(cookingSessions[i],
                    RecipeWithId(cookingSessions[i].recipeId))]_vars

\* C19, what the length comparison does guarantee: a completed session has as
\* many checked entries in each list as its recipe had lines and steps
C19_LengthsMatch ==
  [][\A i \in 1..Len(cookingSessions) :
       (Len(cookingSessions') = Len(cookingSessions) /\ BecomesCompleted(i)) =>
         LET recipe == RecipeWithId(cookingSessions[i].recipeId)
         IN  /\ Len(cookingSessions[i].ingredientsChecked) = Len(recipe.ingredients)
             /\ Len(cookingSessions[i].stepsChecked) = Len(recipe.instructions)]_vars

\* a session was completed on the one-line recipe with index 1 checked and
\* index 0 unchecked in both lists
C19_StaleIndexCompleted ==
  \E i \in 1..Len(cookingSessions) :
    /\ cookingSessions[i].status = "completed"
    /\ cookingSessions[i].ingredientsChecked = <<1>>
    /\ cookingSessions[i].stepsChecked = <<1>>
    /\ Len(RecipeWithId(cookingSessions[i].recipeId).ingredients) = 1

----------------------------------------------------------------------------
(* Further properties of deductFromInventory (DeductSpec) *)

\* the place of inventory position i in the visiting order
PlaceOf(i) ==
  CHOOSE p \in 1..Len(call.result.sortedItems) : call.result.sortedItems[p] = i

\* C21: the ledger has exactly one entry per lot deducted from, in visiting
\* order; the entry carries the lot's unit and toDeduct = min(lot.quantity,
\* remaining converted into the lot's unit); a lot that is kept holds its
\* quantity before the call less toDeduct.
C21_LedgerPerLot ==
  DeductDone =>
    /\ Len(call.result.deducted) = Len(call.result.touched)
    /\ \A k \in 1..Len(call.result.touched) :
         /\ call.result.touched[k] \in Range(call.result.sortedItems)
         /\ \A j \in 1..(k - 1) :
              PlaceOf(call.result.touched[j]) < PlaceOf(call.result.touched[k])
         /\ call.result.deducted[k].measurementId = TouchedLot(k).measurementId
         /\ call.result.deducted[k].quantity =
              RMin(TouchedLot(k).quantity,
                   convertMeasurement(call.requiredMeasurementId,
                                      TouchedLot(k).measurementId,
                                      RemainingAfter(k - 1), call.measurements))
         /\ \A item \in Range(ReturnedFor(k)) :
              TouchedLot(k).quantity =
                RAdd(call.result.deducted[k].quantity, item.quantity)

\* two lots deducted from: the first in full, the second in part and kept
C21_Witness ==
  /\ DeductDone
  /\ Len(call.result.deducted) = 2
  /\ call.result.deducted[1].quantity = TouchedLot(1).quantity
  /\ RLt(call.result.deducted[2].quantity, TouchedLot(2).quantity)
  /\ call.result.deducted[1].measurementId # call.result.deducted[2].measurementId
  /\ ReturnedFor(2) # <<>>

----------------------------------------------------------------------------
(* The recipe form (RecipeForm.tsx).  The servings field is a controlled   *)
(* number input with min="1" and step="0.5" inside the form element; its   *)
(* onChange stores parseFloat(text) || 1.  The submit button raises the    *)
(* submit event only when the field satisfies its constraints, and         *)
(* handleSubmit then hands the servings state to onSave as it is.          *)

NaN == <<"NaN">>

\* text typed into the servings field ("" is also what a number input
\* reports for text that is no number)
ServingsTexts == {"", "0", "-2", "0.5", "1.2", "1.5", "3"}

\* parseFloat on the texts above
parseFloat(text) ==
  CASE text = "" -> NaN
    [] text = "0" -> Zero
    [] text = "-2" -> <<-2, 1>>
    [] text = "0.5" -> Half
    [] text = "1.2" -> <<6, 5>>
    [] text = "1.5" -> <<3, 2>>
    [] text = "3" -> Three

\* x || fallback on numbers: NaN and 0 are falsy
OrElse(x, fallback) == IF x = NaN \/ x = Zero THEN fallback ELSE x

\* the field was never typed into
Untouched == "untouched"

\* the servings state: useState(recipe?.servings || 4), then the last
\* onChange if the field was typed into
ServingsState(recipe, typed) ==
  IF typed = Untouched
  THEN (IF recipe = Null THEN Four ELSE OrElse(recipe.servings, Four))
  ELSE OrElse(parseFloat(typed), One)

\* a form without the constraints on the field
ServingsFieldValid_noValidate(servings) == TRUE

\* min="1" step="0.5": the value is at least 1 and a whole number of steps
\* above it
ServingsFieldValid(servings) ==
  /\ RLe(One, servings)
  /\ RMul(RSub(servings, One), Two)[2] = 1

editingRecipe == Find(SelectSeq(recipes, LAMBDA r : r.id = editingRecipeId))

\* the submit button of the form: constraint validation, then handleSubmit,
\* which calls onSave = handleSaveRecipe
submitRecipeForm(typed, lines) ==
  LET servings == ServingsState(editingRecipe, typed)
  IN  /\ currentView = "recipe-form"
      /\ ServingsFieldValid(servings)
      /\ handleSaveRecipe([servings |-> servings,
                           ingredients |-> lines.ingredients,
                           instructions |-> lines.instructions])

FormInit == AppInit /\ call = NoCall

FormNext ==
  \/ \E username \in Usernames, password \in Passwords : handleLogin(username, password)
  \/ \E view \in Views : setCurrentView(view)
  \/ handleAddRecipe
  \/ \E i \in 1..Len(userRecipes) : handleEditRecipe(userRecipes[i].id)
  \/ \E typed \in ServingsTexts \cup {Untouched}, lines \in RecipeFormInputs :
       submitRecipeForm(typed, lines)

FormSpec == FormInit /\ [][FormNext]_vars

----------------------------------------------------------------------------
(* Properties of the recipe form (FormSpec) *)

\* C22: after any sequence of recipe create and edit submissions through
\* the recipe form every stored recipe has servings > 0.
C22_ServingsPositive ==
  \A r \in Range(recipes) : r.servings # NaN /\ RLt(Zero, r.servings)

\* a seed recipe edited to 1.5 servings, a recipe created with the field
\* cleared (stored as 1) and one created with the field left at its default
C22_Witness ==
  /\ \E r \in Range(recipes) : r.id = defaultRecipes[1].id /\ r.servings = <<3, 2>>
  /\ \E r \in Range(recipes) : r.id \in Range(GeneratedIds) /\ r.servings = One
  /\ \E r \in Range(recipes) : r.id \in Range(GeneratedIds) /\ r.servings = Four

----------------------------------------------------------------------------
(* lib/storage.ts: loadData and saveData over localStorage.  The store     *)
(* holds nothing, text that is no JSON, the JSON of a primitive value, or  *)
(* the JSON of an aggregate; getItem and setItem may throw.  Items carry   *)
(* an id and a name; a stored item can lack the name field.                *)

DATA_VERSION == 3

NoName == "<undefined>"

\* String.prototype.toLowerCase on the names used here
toLowerCase(name) ==
  CASE name = "Salt" -> "salt"
    [] name = "SALT" -> "salt"
    [] name = "Black Pepper" -> "black pepper"
    [] name = "Honey" -> "honey"
    [] name = "cup" -> "cup"
    [] name = "Cup" -> "cup"
    [] name = "tablespoon" -> "tablespoon"
    [] name = "piece" -> "piece"
    [] name = "glass" -> "glass"

seedIngredients ==
  << [id |-> "1", name |-> "Salt", origin |-> "seed"],
     [id |-> "2", name |-> "Black Pepper", origin |-> "seed"] >>

\* the seed measurements above with the id and name of the source
seedMeasurements ==
  << [id |-> "1", name |-> "cup", origin |-> "seed"],
     [id |-> "2", name |-> "tablespoon", origin |-> "seed"],
     [id |-> "15", name |-> "piece", origin |-> "seed"] >>

\* a wrong merge: looks at the ids only
ItemsToAdd_byIdOnly(existingItems, defaultItems) ==
  SelectSeq(defaultItems,
            LAMBDA item : item.id \notin {e.id : e \in Range(existingItems)})

\* defaultItems.filter(item => !existingIds.has(item.id) &&
\*                             !existingNames.has(item.name.toLowerCase()))
ItemsToAdd(existingItems, defaultItems) ==
  LET existingIds == {e.id : e \in Range(existingItems)}
      existingNames == {toLowerCase(e.name) : e \in Range(existingItems)}
  IN  SelectSeq(defaultItems,
                LAMBDA item : /\ item.id \notin existingIds
                              /\ toLowerCase(item.name) \notin existingNames)

\* item.name.toLowerCase() throws on an item without a name
mergeThrows(existingItems) == \E e \in Range(existingItems) : e.name = NoName

mergeDefaultItems(existingItems, defaultItems) ==
  existingItems \o ItemsToAdd(existingItems, defaultItems)

\* getDefaultData, with the fields the state machine uses kept together
defaultAggregate ==
  [rest |-> [users |-> getDefaultData.users,
             recipes |-> getDefaultData.recipes,
             inventory |-> getDefaultData.inventory,
             cookingSessions |-> getDefaultData.cookingSessions,
             currentUserId |-> getDefaultData.currentUserId],
   ingredients |-> [present |-> TRUE, items |-> seedIngredients],
   measurements |-> [present |-> TRUE, items |-> seedMeasurements],
   version |-> DATA_VERSION]

\* JSON.stringify of an aggregate, and JSON.parse of what the store holds
stringify(data) == [kind |-> "aggregate", data |-> data]
parseThrows(stored) == stored.kind = "corrupt"

\* data.x || []
ItemsOrEmpty(field) == IF field.present THEN field.items ELSE <<>>

\* !data.version || data.version < DATA_VERSION; a missing version is 0 here
NeedsMigration(version) == version = 0 \/ version < DATA_VERSION

\* the catch block and the return after it
Fallback(storage) ==
  [data |-> defaultAggregate, storage |-> storage, writes |-> 0,
   logged |-> TRUE, threw |-> FALSE]

\* a wrong handler: the exception leaves loadData
Recover_rethrow(storage) ==
  [data |-> defaultAggregate, storage |-> storage, writes |-> 0,
   logged |-> TRUE, threw |-> TRUE]

Recover(storage) == Fallback(storage)

\* loadData; env says whether getItem and setItem throw in this run
loadData(storage, env) ==
  IF env.getItemThrows THEN Recover(storage)
  ELSE IF storage.kind \in {"absent", "empty"}
  THEN [data |-> defaultAggregate, storage |-> storage, writes |-> 0,
        logged |-> FALSE, threw |-> FALSE]
  ELSE IF parseThrows(storage) THEN Recover(storage)
  ELSE IF storage.kind = "primitive" THEN Recover(storage)
  ELSE
    LET data == storage.data
    IN  IF NeedsMigration(data.version)
        THEN IF \/ mergeThrows(ItemsOrEmpty(data.ingredients))
                \/ mergeThrows(ItemsOrEmpty(data.measurements))
             THEN Recover(storage)
             ELSE
               LET migrated ==
                     [data EXCEPT
                        !.ingredients =
                          [present |-> TRUE,
                           items |-> mergeDefaultItems(ItemsOrEmpty(data.ingredients),
                                                       seedIngredients)],
                        !.measurements =
                          [present |-> TRUE,
                           items |-> mergeDefaultItems(ItemsOrEmpty(data.measurements),
                                                       seedMeasurements)],
                        !.version = DATA_VERSION]
               IN  IF env.setItemThrows THEN Recover(storage)
                   ELSE [data |-> migrated, storage |-> stringify(migrated),
                         writes |-> 1, logged |-> FALSE, threw |-> FALSE]
        ELSE [data |-> data, storage |-> storage, writes |-> 0,
              logged |-> FALSE, threw |-> FALSE]

\* saveData: the aggregate is only read
saveData(data, storage, env) ==
  IF env.setItemThrows
  THEN [data |-> data, storage |-> storage, writes |-> 0, logged |-> TRUE,
        threw |-> FALSE]
  ELSE [data |-> data, storage |-> stringify(data), writes |-> 1,
        logged |-> FALSE, threw |-> FALSE]

----------------------------------------------------------------------------
(* Specification of the store: Init draws what localStorage holds and how  *)
(* it behaves, ApplyLoad and ApplySave run the two functions.              *)

StoredIngredientPool ==
  { [id |-> "1", name |-> "SALT", origin |-> "user"],
    [id |-> "c7", name |-> "SALT", origin |-> "user"],
    [id |-> "2", name |-> "Honey", origin |-> "user"],
    [id |-> "c8", name |-> "Honey", origin |-> "user"],
    [id |-> "c9", name |-> NoName, origin |-> "user"] }

StoredMeasurementPool ==
  { [id |-> "m1", name |-> "Cup", origin |-> "user"],
    [id |-> "15", name |-> "glass", origin |-> "user"],
    [id |-> "m3", name |-> NoName, origin |-> "user"] }

MaxStoredItems == 2

StoredItemLists(pool) ==
  [present : {TRUE}, items : UNION {[1..n -> pool] : n \in 0..MaxStoredItems}]
  \cup {[present |-> FALSE, items |-> <<>>]}

storedRest ==
  [users |-> storedUsers, recipes |-> storedRecipes, inventory |-> <<>>,
   cookingSessions |-> << storedSession >>, currentUserId |-> "demo"]

StoredAggregates ==
  [rest : {storedRest},
   ingredients : StoredItemLists(StoredIngredientPool),
   measurements : StoredItemLists(StoredMeasurementPool),
   version : {0, DATA_VERSION - 1, DATA_VERSION, DATA_VERSION + 1}]

Storages ==
  {[kind |-> k, data |-> defaultAggregate] : k \in {"absent", "empty", "corrupt", "primitive"}}
  \cup {stringify(d) : d \in StoredAggregates}

StorageEnvs == [getItemThrows : BOOLEAN, setItemThrows : BOOLEAN]

LoadCalls ==
  [fn : {"loadData"}, storage : Storages, env : StorageEnvs, done : {FALSE},
   data : {defaultAggregate}, result : {Fallback(stringify(defaultAggregate))}]

SaveCalls ==
  [fn : {"saveData"}, storage : Storages, env : StorageEnvs, done : {FALSE},
   data : {[defaultAggregate EXCEPT !.rest = storedRest]},
   result : {Fallback(stringify(defaultAggregate))}]

ApplyLoad ==
  /\ call.fn = "loadData"
  /\ ~call.done
  /\ call' = [call EXCEPT !.done = TRUE,
                          !.result = loadData(call.storage, call.env)]
  /\ UNCHANGED appVars

ApplySave ==
  /\ call.fn = "saveData"
  /\ ~call.done
  /\ call' = [call EXCEPT !.done = TRUE,
                          !.result = saveData(call.data, call.storage, call.env)]
  /\ UNCHANGED appVars

StorageInit == AppInit /\ call \in LoadCalls \cup SaveCalls

StorageNext == ApplyLoad \/ ApplySave

StorageSpec == StorageInit /\ [][StorageNext]_vars

LoadDone == call.fn = "loadData" /\ call.done
SaveDone == call.fn = "saveData" /\ call.done

----------------------------------------------------------------------------
(* Properties of the store (StorageSpec) *)

HoldsAggregate == call.storage.kind = "aggregate"
Outdated == call.storage.data.version < DATA_VERSION

\* the default item is in the stored list under its id or, ignoring case,
\* under its name
AlreadyPresent(item, existingItems) ==
  \E e \in Range(existingItems) :
    e.id = item.id \/ toLowerCase(e.name) = toLowerCase(item.name)

\* merged is the stored list followed by the absent default items in order
IsMergeOf(merged, field, defaultItems) ==
  LET existingItems == ItemsOrEmpty(field)
  IN  merged = [present |-> TRUE,
                items |-> existingItems \o
                          SelectSeq(defaultItems,
                                    LAMBDA d : ~AlreadyPresent(d, existingItems))]

\* the result of a migration, and of a load that changes nothing
Migrated ==
  /\ IsMergeOf(call.result.data.ingredients, call.storage.data.ingredients,
               seedIngredients)
  /\ IsMergeOf(call.result.data.measurements, call.storage.data.measurements,
               seedMeasurements)
  /\ call.result.data.version = DATA_VERSION
  /\ call.result.data.rest = call.storage.data.rest
  /\ call.result.writes = 1
  /\ call.result.storage = stringify(call.result.data)

LoadedAsStored ==
  /\ call.result.data = call.storage.data
  /\ call.result.writes = 0
  /\ call.result.storage = call.storage

\* C23 as stated: stored data with a missing or older version is migrated and
\* written back; stored data at the current version is returned as it is and
\* nothing is written.
C23_AsStated ==
  (LoadDone /\ HoldsAggregate) =>
    IF Outdated THEN Migrated ELSE LoadedAsStored

StoreWorks == ~call.env.getItemThrows /\ ~call.env.setItemThrows

AllNamed ==
  \A e \in Range(ItemsOrEmpty(call.storage.data.ingredients))
           \cup Range(ItemsOrEmpty(call.storage.data.measurements)) :
    e.name # NoName

\* C23 amended: the same when the store can be read and written and every
\* stored ingredient and measurement has a name; when reading, merging or
\* writing fails the store is left as it was and the default aggregate is
\* returned, and a load at the current version that can be read needs
\* neither the write nor the names.
C23_MigrationMerges ==
  (LoadDone /\ HoldsAggregate) =>
    IF call.env.getItemThrows THEN call.result = Fallback(call.storage)
    ELSE IF ~Outdated THEN LoadedAsStored
    ELSE IF AllNamed /\ ~call.env.setItemThrows THEN Migrated
    ELSE call.result = Fallback(call.storage)

\* a migration that keeps two stored items, skips one default item for its
\* id and another for its name in another case, and appends a third
C23_Witness ==
  /\ LoadDone /\ HoldsAggregate /\ Outdated /\ StoreWorks /\ AllNamed
  /\ Len(call.storage.data.ingredients.items) = 2
  /\ Len(call.result.data.ingredients.items) = 2
  /\ \E e \in Range(call.storage.data.ingredients.items) :
       e.id = seedIngredients[2].id /\ e.name # seedIngredients[2].name
  /\ \E e \in Range(call.storage.data.ingredients.items) :
       e.id # seedIngredients[1].id /\ e.name = "SALT"
  /\ Len(call.result.data.measurements.items) >
       Len(call.storage.data.measurements.items)

\* the store cannot be read, holds nothing, or holds content that cannot be
\* parsed or migrated
Unusable ==
  \/ call.env.getItemThrows
  \/ call.storage.kind \in {"absent", "empty", "corrupt", "primitive"}
  \/ HoldsAggregate /\ Outdated /\ (~AllNamed \/ call.env.setItemThrows)

IsFreshDefault(data) ==
  /\ data.rest.users = << [id |-> "demo", username |-> "demo", password |-> "demo"] >>
  /\ data.rest.recipes = defaultRecipes
  /\ data.rest.inventory = <<>>
  /\ data.rest.cookingSessions = <<>>
  /\ data.rest.currentUserId = "null"
  /\ data.ingredients.items = seedIngredients
  /\ data.measurements.items = seedMeasurements
  /\ data.version = DATA_VERSION

\* C24: loadData and saveData never pass a failure on to the caller; on a
\* store that is unavailable, empty or holds content that cannot be parsed
\* or migrated loadData returns the default aggregate, and a failing save
\* leaves the aggregate in memory (and the store) as it was.
C24_FailuresAreAbsorbed ==
  /\ LoadDone =>
       /\ ~call.result.threw
       /\ Unusable => /\ IsFreshDefault(call.result.data)
                       /\ call.result.storage = call.storage
                       /\ call.result.writes = 0
  /\ SaveDone =>
       /\ ~call.result.threw
       /\ call.result.data = call.data
       /\ call.env.setItemThrows => call.result.storage = call.storage
       /\ ~call.env.setItemThrows => call.result.storage = stringify(call.data)

\* an outdated aggregate that could be merged but not written back: the
\* caller gets the default aggregate and the store keeps the old data
C24_Witness ==
  /\ LoadDone /\ HoldsAggregate /\ Outdated /\ AllNamed
  /\ ~call.env.getItemThrows /\ call.env.setItemThrows
  /\ call.storage.data.ingredients.items # <<>>
  /\ IsFreshDefault(call.result.data)
  /\ call.result.logged

----------------------------------------------------------------------------
(* The complete seed measurements of lib/storage.ts, with the ids, names   *)
(* and factors of the source (decimal factors as fractions).  The factor   *)
(* 0.0000022046 of milligram -> pound is 11023/5000000000, beyond the      *)
(* integers available here; it is written as the nearest unit fraction.    *)

measurementTable ==
  <<
  [id |-> "1", name |-> "cup",
   conversions |->
     << [toMeasurementId |-> "2", factor |-> <<16, 1>>],
        [toMeasurementId |-> "3", factor |-> <<48, 1>>],
        [toMeasurementId |-> "4", factor |-> <<8, 1>>],
        [toMeasurementId |-> "5", factor |-> <<1, 2>>],
        [toMeasurementId |-> "6", factor |-> <<1, 4>>],
        [toMeasurementId |-> "7", factor |-> <<1, 16>>],
        [toMeasurementId |-> "8", factor |-> <<59147, 250000>>],
        [toMeasurementId |-> "9", factor |-> <<59147, 250>>] >>],
  [id |-> "2", name |-> "tablespoon",
   conversions |->
     << [toMeasurementId |-> "1", factor |-> <<1, 16>>],
        [toMeasurementId |-> "3", factor |-> <<3, 1>>],
        [toMeasurementId |-> "4", factor |-> <<1, 2>>],
        [toMeasurementId |-> "5", factor |-> <<1, 32>>],
        [toMeasurementId |-> "6", factor |-> <<1, 64>>],
        [toMeasurementId |-> "7", factor |-> <<1, 256>>],
        [toMeasurementId |-> "8", factor |-> <<36967, 2500000>>],
        [toMeasurementId |-> "9", factor |-> <<36967, 2500>>] >>],
  [id |-> "3", name |-> "teaspoon",
   conversions |->
     << [toMeasurementId |-> "1", factor |-> <<208333, 10000000>>],
        [toMeasurementId |-> "2", factor |-> <<333333, 1000000>>],
        [toMeasurementId |-> "4", factor |-> <<166667, 1000000>>],
        [toMeasurementId |-> "5", factor |-> <<104167, 10000000>>],
        [toMeasurementId |-> "6", factor |-> <<520833, 100000000>>],
        [toMeasurementId |-> "7", factor |-> <<4069, 3125000>>],
        [toMeasurementId |-> "8", factor |-> <<123223, 25000000>>],
        [toMeasurementId |-> "9", factor |-> <<123223, 25000>>] >>],
  [id |-> "4", name |-> "fluid ounce",
   conversions |->
     << [toMeasurementId |-> "1", factor |-> <<1, 8>>],
        [toMeasurementId |-> "2", factor |-> <<2, 1>>],
        [toMeasurementId |-> "3", factor |-> <<6, 1>>],
        [toMeasurementId |-> "5", factor |-> <<1, 16>>],
        [toMeasurementId |-> "6", factor |-> <<1, 32>>],
        [toMeasurementId |-> "7", factor |-> <<1, 128>>],
        [toMeasurementId |-> "8", factor |-> <<59147, 2000000>>],
        [toMeasurementId |-> "9", factor |-> <<59147, 2000>>] >>],
  [id |-> "5", name |-> "pint",
   conversions |->
     << [toMeasurementId |-> "1", factor |-> <<2, 1>>],
        [toMeasurementId |-> "2", factor |-> <<32, 1>>],
        [toMeasurementId |-> "3", factor |-> <<96, 1>>],
        [toMeasurementId |-> "4", factor |-> <<16, 1>>],
        [toMeasurementId |-> "6", factor |-> <<1, 2>>],
        [toMeasurementId |-> "7", factor |-> <<1, 8>>],
        [toMeasurementId |-> "8", factor |-> <<59147, 125000>>],
        [toMeasurementId |-> "9", factor |-> <<59147, 125>>] >>],
  [id |-> "6", name |-> "quart",
   conversions |->
     << [toMeasurementId |-> "1", factor |-> <<4, 1>>],
        [toMeasurementId |-> "2", factor |-> <<64, 1>>],
        [toMeasurementId |-> "3", factor |-> <<192, 1>>],
        [toMeasurementId |-> "4", factor |-> <<32, 1>>],
        [toMeasurementId |-> "5", factor |-> <<2, 1>>],
        [toMeasurementId |-> "7", factor |-> <<1, 4>>],
        [toMeasurementId |-> "8", factor |-> <<946353, 1000000>>],
        [toMeasurementId |-> "9", factor |-> <<946353, 1000>>] >>],
  [id |-> "7", name |-> "gallon",
   conversions |->
     << [toMeasurementId |-> "1", factor |-> <<16, 1>>],
        [toMeasurementId |-> "2", factor |-> <<256, 1>>],
        [toMeasurementId |-> "3", factor |-> <<768, 1>>],
        [toMeasurementId |-> "4", factor |-> <<128, 1>>],
        [toMeasurementId |-> "5", factor |-> <<8, 1>>],
        [toMeasurementId |-> "6", factor |-> <<4, 1>>],
        [toMeasurementId |-> "8", factor |-> <<378541, 100000>>],
        [toMeasurementId |-> "9", factor |-> <<378541, 100>>] >>],
  [id |-> "8", name |-> "liter",
   conversions |->
     << [toMeasurementId |-> "9", factor |-> <<1000, 1>>],
        [toMeasurementId |-> "1", factor |-> <<16907, 4000>>],
        [toMeasurementId |-> "2", factor |-> <<16907, 250>>],
        [toMeasurementId |-> "3", factor |-> <<50721, 250>>],
        [toMeasurementId |-> "4", factor |-> <<16907, 500>>],
        [toMeasurementId |-> "5", factor |-> <<105669, 50000>>],
        [toMeasurementId |-> "6", factor |-> <<105669, 100000>>],
        [toMeasurementId |-> "7", factor |-> <<66043, 250000>>] >>],
  [id |-> "9", name |-> "milliliter",
   conversions |->
     << [toMeasurementId |-> "8", factor |-> <<1, 1000>>],
        [toMeasurementId |-> "1", factor |-> <<16907, 4000000>>],
        [toMeasurementId |-> "2", factor |-> <<16907, 250000>>],
        [toMeasurementId |-> "3", factor |-> <<50721, 250000>>],
        [toMeasurementId |-> "4", factor |-> <<16907, 500000>>],
        [toMeasurementId |-> "5", factor |-> <<105669, 50000000>>],
        [toMeasurementId |-> "6", factor |-> <<105669, 100000000>>],
        [toMeasurementId |-> "7", factor |-> <<66043, 250000000>>] >>],
  [id |-> "10", name |-> "ounce",
   conversions |->
     << [toMeasurementId |-> "12", factor |-> <<1, 16>>],
        [toMeasurementId |-> "11", factor |-> <<56699, 2000>>],
        [toMeasurementId |-> "13", factor |-> <<56699, 2000000>>],
        [toMeasurementId |-> "14", factor |-> <<56699, 2>>] >>],
  [id |-> "12", name |-> "pound",
   conversions |->
     << [toMeasurementId |-> "10", factor |-> <<16, 1>>],
        [toMeasurementId |-> "11", factor |-> <<56699, 125>>],
        [toMeasurementId |-> "13", factor |-> <<56699, 125000>>],
        [toMeasurementId |-> "14", factor |-> <<453592, 1>>] >>],
  [id |-> "14", name |-> "milligram",
   conversions |->
     << [toMeasurementId |-> "11", factor |-> <<1, 1000>>],
        [toMeasurementId |-> "13", factor |-> <<1, 1000000>>],
        [toMeasurementId |-> "10", factor |-> <<17637, 500000000>>],
        [toMeasurementId |-> "12", factor |-> <<1, 453597>>] >>],
  [id |-> "11", name |-> "gram",
   conversions |->
     << [toMeasurementId |-> "14", factor |-> <<1000, 1>>],
        [toMeasurementId |-> "13", factor |-> <<1, 1000>>],
        [toMeasurementId |-> "10", factor |-> <<17637, 500000>>],
        [toMeasurementId |-> "12", factor |-> <<110231, 50000000>>] >>],
  [id |-> "13", name |-> "kilogram",
   conversions |->
     << [toMeasurementId |-> "14", factor |-> <<1000000, 1>>],
        [toMeasurementId |-> "11", factor |-> <<1000, 1>>],
        [toMeasurementId |-> "10", factor |-> <<17637, 500>>],
        [toMeasurementId |-> "12", factor |-> <<110231, 50000>>] >>],
  [id |-> "15", name |-> "piece", conversions |-> <<>>],
  [id |-> "16", name |-> "slice", conversions |-> <<>>],
  [id |-> "17", name |-> "clove", conversions |-> <<>>],
  [id |-> "18", name |-> "bunch", conversions |-> <<>>],
  [id |-> "19", name |-> "can", conversions |-> <<>>],
  [id |-> "20", name |-> "package", conversions |-> <<>>],
  [id |-> "21", name |-> "handful", conversions |-> <<>>],
  [id |-> "22", name |-> "pinch", conversions |-> <<>>],
  [id |-> "23", name |-> "dash", conversions |-> <<>>],
  [id |-> "24", name |-> "sprig", conversions |-> <<>>],
  [id |-> "25", name |-> "leaf", conversions |-> <<>>]
  >>

\* a seed in which tablespoon has lost its edge to cup
allDefaultMeasurements_oneWay ==
  [k \in 1..Len(measurementTable) |->
     IF measurementTable[k].name = "tablespoon"
     THEN [measurementTable[k] EXCEPT !.conversions = Tail(@)]
     ELSE measurementTable[k]]

allDefaultMeasurements == measurementTable

SeedIds == {allDefaultMeasurements[k].id : k \in 1..Len(allDefaultMeasurements)}

\* convertMeasurement over the complete seed
SeedConvertCalls ==
  [fn : {"convertMeasurement"},
   fromMeasurementId : SeedIds,
   toMeasurementId : SeedIds,
   quantity : {One, <<5, 1>>},
   measurements : {allDefaultMeasurements},
   done : {FALSE},
   result : {Null}]

SeedInit == AppInit /\ call \in SeedConvertCalls

SeedNext == ApplyConvert

SeedSpec == SeedInit /\ [][SeedNext]_vars

----------------------------------------------------------------------------
(* Properties of the seed measurements (SeedSpec) *)

CountableNames ==
  {"piece", "slice", "clove", "bunch", "can", "package", "handful", "pinch",
   "dash", "sprig", "leaf"}

SeedWithId(id) ==
  CHOOSE m \in Range(call.measurements) : m.id = id

Targets(m) == {c.toMeasurementId : c \in Range(m.conversions)}

IsCountable(id) == SeedWithId(id).name \in CountableNames

\* C25: in the seed measurements every edge A -> B has an edge B -> A, every
\* edge target is a defined measurement, and the countable units have no
\* outgoing and no incoming edge, so that a conversion between a countable
\* unit and any other unit yields null.
C25_SeedGraphShape ==
  /\ \A a \in Range(call.measurements) :
       /\ \A t \in Targets(a) :
            /\ t \in SeedIds
            /\ a.id \in Targets(SeedWithId(t))
       /\ a.name \in CountableNames =>
            /\ a.conversions = <<>>
            /\ \A b \in Range(call.measurements) : a.id \notin Targets(b)
  /\ \A n \in CountableNames : \E a \in Range(call.measurements) : a.name = n
  /\ (/\ ConvertDone
      /\ call.fromMeasurementId # call.toMeasurementId
      /\ IsCountable(call.fromMeasurementId) \/ IsCountable(call.toMeasurementId))
       => call.result = Null

\* convert('piece', 'cup', 5) has returned null
C25_Witness ==
  /\ ConvertDone
  /\ SeedWithId(call.fromMeasurementId).name = "piece"
  /\ SeedWithId(call.toMeasurementId).name = "cup"
  /\ call.quantity = <<5, 1>>
  /\ call.result = Null

----------------------------------------------------------------------------
(* Specification of deductFromInventory over the complete seed             *)
(* measurements, with lots held in cups, tablespoons and teaspoons (ids    *)
(* 1, 2 and 3 of the seed).                                                *)

SeedLots ==
  [userId : {"demo"}, ingredientId : {"flour"},
   measurementId : {"1", "2", "3"},
   quantity : {One, Sixteen, FortyEight}]

SeedInventories ==
  {inv \in UNION {[1..n -> SeedLots] : n \in 0..MaxLots} : UniqueKeys(inv)}

SeedDeductInit ==
  /\ AppInit
  /\ call \in [fn : {"deductFromInventory"},
               ingredientId : {"flour"},
               requiredMeasurementId : {"1", "2"},
               requiredQuantity : {Half, One, Three},
               inventory : SeedInventories,
               measurements : {allDefaultMeasurements},
               userId : {"demo"},
               done : {FALSE},
               result : {Null}]

SeedDeductSpec == SeedDeductInit /\ [][DeductNext]_vars

----------------------------------------------------------------------------
(* Properties of deductFromInventory over the seed (SeedDeductSpec) *)

\* the ledger total in the required unit: each entry divided by the factor
\* of the edge from the required unit to the entry's unit
LedgerTotal ==
  LET led == call.result.deducted
      total[k \in 0..Len(led)] ==
        IF k = 0 THEN Zero
        ELSE RAdd(total[k - 1],
                  RDiv(led[k].quantity, ForwardFactor(TouchedLot(k))))
  IN  total[Len(led)]

\* the first lot visited holds at least the requirement converted to its unit
FirstLotSuffices ==
  /\ call.result.touched # <<>>
  /\ RLe(RMul(call.requiredQuantity, ForwardFactor(TouchedLot(1))),
         TouchedLot(1).quantity)

\* C26: deductFromInventory never removes more than was required: the ledger
\* total expressed in the required unit is at most requiredQuantity, and
\* when the first visited convertible lot alone holds at least the converted
\* requirement no second lot is deducted from.
C26_NeverOverDeducts ==
  DeductDone =>
    /\ RLe(LedgerTotal, call.requiredQuantity)
    /\ FirstLotSuffices => Len(call.result.deducted) = 1

\* one cup required, 48 teaspoons visited first and taken in full, and a
\* second lot deducted from all the same
C26_OverDeducted ==
  /\ DeductDone
  /\ call.requiredQuantity = One
  /\ call.requiredMeasurementId = "1"
  /\ Len(call.result.deducted) = 2
  /\ TouchedLot(1).measurementId = "3"
  /\ call.result.deducted[1].quantity = FortyEight
  /\ RLt(call.requiredQuantity, LedgerTotal)

----------------------------------------------------------------------------
(* The sufficiency check against the deduction (DeductSpec) *)

\* hasEnoughInventory on the user's lots, as cook mode calls it
CheckOfCall ==
  hasEnoughInventory(call.ingredientId, call.requiredMeasurementId,
                     call.requiredQuantity,
                     SelectSeq(call.inventory, LAMBDA i : i.userId = call.userId),
                     call.measurements)

\* C27: whenever hasEnoughInventory reports hasEnough for a positive
\* quantity on the user's lots, deductFromInventory with the same arguments
\* on the same lots ends with nothing left to deduct.
C27_CheckAndDeductionAgree ==
  (DeductDone /\ RLt(Zero, call.requiredQuantity) /\ CheckOfCall.hasEnough)
    => RLe(call.result.remainingToDeduct, Zero)

\* the check counted a lot that the deduction passed over: enough was
\* reported, and nothing was deducted
C27_CountedButNotDeducted ==
  /\ DeductDone
  /\ RLt(Zero, call.requiredQuantity)
  /\ CheckOfCall.hasEnough
  /\ call.result.deducted = <<>>
  /\ call.result.remainingToDeduct = call.requiredQuantity
  /\ call.result.updatedInventory = call.inventory

----------------------------------------------------------------------------
(* Cooking a recipe that lists the same ingredient on two lines, as the    *)
(* recipe form allows, against a stocked inventory.                        *)

repeatedLineRecipe ==
  [id |-> "r4", userId |-> "demo", servings |-> Two,
   ingredients |-> << [ingredientId |-> "flour", quantity |-> One,
                       measurementId |-> "cup"],
                      [ingredientId |-> "flour", quantity |-> One,
                       measurementId |-> "cup"] >>,
   instructions |-> <<"mix">>, cookCount |-> 0]

PantryInventories ==
  { <<>>,
    << Lot("demo", "flour", "cup", One) >>,
    << Lot("demo", "flour", "cup", Two) >>,
    << Lot("demo", "flour", "cup", Four) >>,
    << Lot("demo", "flour", "tablespoon", Sixteen), Lot("demo", "flour", "cup", One) >>,
    << Lot("u2", "flour", "cup", Four), Lot("demo", "flour", "cup", One),
       Lot("demo", "salt", "teaspoon", One) >>,
    << Lot("demo", "flour", "cup", Two), Lot("demo", "salt", "teaspoon", Two) >> }

PantryServingSizeInputs == {One, Two, Four}

PantryInit ==
  /\ users = storedUsers
  /\ recipes = << repeatedLineRecipe, twoLineRecipe >>
  /\ inventory \in PantryInventories
  /\ cookingSessions = <<>>
  /\ currentUserId = "demo"
  /\ measurements = defaultMeasurements
  /\ selectedRecipeId = "null"
  /\ editingRecipeId = "null"
  /\ currentView = "dashboard"
  /\ nextId = 1
  /\ lastOp = [op |-> "init"]
  /\ call = NoCall

PantryNext ==
  \/ \E view \in Views : setCurrentView(view)
  \/ \E i \in 1..Len(userRecipes) : handleStartCooking(userRecipes[i].id)
  \/ \E value \in PantryServingSizeInputs : setServingSize(value)
  \/ handleCompleteCooking

PantrySpec == PantryInit /\ [][PantryNext]_vars

----------------------------------------------------------------------------
(* Properties of completion against the inventory check (PantrySpec) *)

\* checkInventory of cook mode: the lines that fail hasEnoughInventory at the
\* session's serving size against the user's inventory
checkInventory(recipe, servingSize) ==
  LET scalingFactor == RDiv(servingSize, recipe.servings)
  IN  SelectSeq(recipe.ingredients,
                LAMBDA ing :
                  ~hasEnoughInventory(ing.ingredientId, ing.measurementId,
                                      RMul(ing.quantity, scalingFactor),
                                      userInventory, measurements).hasEnough)

\* what is left undeducted of each line when the lines are deducted one
\* after the other, as handleCompleteCooking does
RECURSIVE LeftOfLines(_, _, _, _, _, _)
LeftOfLines(ingredients, k, updatedInventory, scalingFactor, meas, userId) ==
  IF k > Len(ingredients) THEN <<>>
  ELSE LET ing == ingredients[k]
           result == deductFromInventory(ing.ingredientId, ing.measurementId,
                                         RMul(ing.quantity, scalingFactor),
                                         updatedInventory, meas, userId)
       IN  << result.remainingToDeduct >> \o
           LeftOfLines(ingredients, k + 1, result.updatedInventory,
                       scalingFactor, meas, userId)

\* C28: if cook mode shows no missing ingredient for the session, completing
\* it deducts the full scaled quantity of every line of the recipe, also
\* when the recipe lists the same ingredient on more than one line.
C28_NoMissingMeansFullDeduction ==
  [][\A i \in 1..Len(cookingSessions) :
       (/\ Len(cookingSessions') = Len(cookingSessions)
        /\ BecomesCompleted(i)
        /\ checkInventory(RecipeWithId(cookingSessions[i].recipeId),
                          cookingSessions[i].servingSize) = <<>>)
       => LET recipe == RecipeWithId(cookingSessions[i].recipeId)
              left == LeftOfLines(recipe.ingredients, 1, inventory,
                                  RDiv(cookingSessions[i].servingSize, recipe.servings),
                                  measurements, currentUserId)
          IN  \A k \in 1..Len(left) : RLe(left[k], Zero)]_vars

\* C28, what does hold: the same for a recipe whose lines name different
\* ingredients (with the exact-inverse default measurements)
C28_DistinctLinesFullyDeducted ==
  [][\A i \in 1..Len(cookingSessions) :
       (/\ Len(cookingSessions') = Len(cookingSessions)
        /\ BecomesCompleted(i)
        /\ cookingSessions[i].recipeId = twoLineRecipe.id
        /\ checkInventory(RecipeWithId(cookingSessions[i].recipeId),
                          cookingSessions[i].servingSize) = <<>>)
       => LET recipe == RecipeWithId(cookingSessions[i].recipeId)
              left == LeftOfLines(recipe.ingredients, 1, inventory,
                                  RDiv(cookingSessions[i].servingSize, recipe.servings),
                                  measurements, currentUserId)
          IN  \A k \in 1..Len(left) : RLe(left[k], Zero)]_vars

----------------------------------------------------------------------------
(* Further properties of the application (Spec) *)

\* the cookCount a recipe starts with: the seed's, or 0 for a created recipe
InitialCookCount(recipeId) ==
  IF \E r \in Range(defaultRecipes) : r.id = recipeId
  THEN (CHOOSE r \in Range(defaultRecipes) : r.id = recipeId).cookCount
  ELSE 0

CompletedOf(sessions, recipeId) ==
  {i \in 1..Len(sessions) :
     sessions[i].recipeId = recipeId /\ sessions[i].status = "completed"}

CookCountsMatch(rs, sessions) ==
  \A r \in Range(rs) :
    r.cookCount = InitialCookCount(r.id) + Cardinality(CompletedOf(sessions, r.id))

\* C29: in every reachable state the cookCount of every existing recipe is
\* its cookCount at creation (or in the seed) plus the number of stored
\* completed sessions of that recipe, and only complete changes a cookCount.
C29_CookCountIsCompletedSessions ==
  /\ CookCountsMatch(recipes, cookingSessions)
  /\ [][/\ CookCountsMatch(recipes', cookingSessions')
        /\ \A r \in Range(recipes), q \in Range(recipes') :
             (r.id = q.id /\ r.cookCount # q.cookCount)
               => lastOp'.op = "complete" /\ lastOp'.found]_vars

\* the first seed recipe was edited and then cooked to completion once
C29_Witness ==
  \E r \in Range(recipes) :
    /\ r.id = defaultRecipes[1].id
    /\ r.servings # defaultRecipes[1].servings
    /\ r.cookCount = defaultRecipes[1].cookCount + 1
    /\ CompletedOf(cookingSessions, r.id) # {}

\* C30: in every reachable state every stored cooking session's recipeId is
\* the id of an existing recipe and its userId is the id of an existing user.
C30_SessionsReferToExisting ==
  \A s \in Range(cookingSessions) :
    /\ s.recipeId \in RecipeIds(recipes)
    /\ s.userId \in {u.id : u \in Range(users)}

\* a seed recipe was deleted together with its session; the session of the
\* other seed recipe is still stored
C30_Witness ==
  /\ lastOp.op = "delete" /\ lastOp.sessions >= 1
  /\ Len(recipes) < Len(defaultRecipes)
  /\ Len(cookingSessions) >= 1
  /\ \E s \in Range(cookingSessions) : s.userId = "demo"

====
